---- MODULE Spec2Model ----
(***************************************************************************)
(* The three-layer dependency-injection chain of the repository:           *)
(*   UserController -> BussinessService -> UserRepositoryService           *)
(* backed by the module-level mock localStorage (a Map<string, string>).   *)
(*                                                                         *)
(* JavaScript values are tagged records; a JavaScript string is a sequence *)
(* of lexemes, so that the JSON text written by JSON.stringify is a        *)
(* different value from the record it was produced from and a parser can   *)
(* read it back.                                                           *)
(***************************************************************************)
EXTENDS Integers, Sequences, FiniteSets, TLC

VARIABLES storage, last, lastOk, saveCalls, direct, directRet, retry,
    breaker, batch, pipeline, cmap, composition, memo, limiter, debouncer,
    throttler, userService, wrapper, emitter, typedEmitter, shared

vars == <<storage, last, lastOk, saveCalls, direct, directRet, retry,
    breaker, batch, pipeline, cmap, composition, memo, limiter, debouncer,
    throttler, userService, wrapper, emitter, typedEmitter, shared>>

(***************************************************************************)
(* Each specification of this module runs one component of the repository. *)
(* own names the component it runs; the state of every other component is  *)
(* not in use and never changes.                                           *)
(***************************************************************************)
Unused == "unused"

OthersIdle(own) ==
    /\ IF own = "di" THEN TRUE
       ELSE /\ storage = Unused /\ last = Unused /\ lastOk = Unused
            /\ saveCalls = Unused /\ direct = Unused /\ directRet = Unused
    /\ IF own = "retry" THEN TRUE ELSE retry = Unused
    /\ IF own = "breaker" THEN TRUE ELSE breaker = Unused
    /\ IF own = "batch" THEN TRUE ELSE batch = Unused
    /\ IF own = "pipeline" THEN TRUE ELSE pipeline = Unused
    /\ IF own = "cmap" THEN TRUE ELSE cmap = Unused
    /\ IF own = "composition" THEN TRUE ELSE composition = Unused
    /\ IF own = "memo" THEN TRUE ELSE memo = Unused
    /\ IF own = "limiter" THEN TRUE ELSE limiter = Unused
    /\ IF own = "debouncer" THEN TRUE ELSE debouncer = Unused
    /\ IF own = "throttler" THEN TRUE ELSE throttler = Unused
    /\ IF own = "userService" THEN TRUE ELSE userService = Unused
    /\ IF own = "wrapper" THEN TRUE ELSE wrapper = Unused
    /\ IF own = "emitter" THEN TRUE ELSE emitter = Unused
    /\ IF own = "typedEmitter" THEN TRUE ELSE typedEmitter = Unused
    /\ IF own = "shared" THEN TRUE ELSE shared = Unused

Frame(own) ==
    /\ IF own = "di" THEN TRUE
       ELSE UNCHANGED <<storage, last, lastOk, saveCalls, direct, directRet>>
    /\ IF own = "retry" THEN TRUE ELSE UNCHANGED retry
    /\ IF own = "breaker" THEN TRUE ELSE UNCHANGED breaker
    /\ IF own = "batch" THEN TRUE ELSE UNCHANGED batch
    /\ IF own = "pipeline" THEN TRUE ELSE UNCHANGED pipeline
    /\ IF own = "cmap" THEN TRUE ELSE UNCHANGED cmap
    /\ IF own = "composition" THEN TRUE ELSE UNCHANGED composition
    /\ IF own = "memo" THEN TRUE ELSE UNCHANGED memo
    /\ IF own = "limiter" THEN TRUE ELSE UNCHANGED limiter
    /\ IF own = "debouncer" THEN TRUE ELSE UNCHANGED debouncer
    /\ IF own = "throttler" THEN TRUE ELSE UNCHANGED throttler
    /\ IF own = "userService" THEN TRUE ELSE UNCHANGED userService
    /\ IF own = "wrapper" THEN TRUE ELSE UNCHANGED wrapper
    /\ IF own = "emitter" THEN TRUE ELSE UNCHANGED emitter
    /\ IF own = "typedEmitter" THEN TRUE ELSE UNCHANGED typedEmitter
    /\ IF own = "shared" THEN TRUE ELSE UNCHANGED shared

(***************************************************************************)
(* Bounds of the model.                                                    *)
(***************************************************************************)
\* user ids range over 1..MaxId
MaxId == 2
\* the calls are issued by the callers 1..NumCallers
NumCallers == 2
\* retryAsync is given maxRetries in 0..MaxRetries
MaxRetries == 2
\* baseDelay, in ms, ranges over 1..MaxBaseDelay
MaxBaseDelay == 2
\* the values and the errors of the callbacks are numbered 1..NumOutcomes
NumOutcomes == 2
\* circuitBreaker is given failureThreshold in 1..MaxThreshold
MaxThreshold == 2
\* ... and timeoutMs in 0..MaxTimeout
MaxTimeout == 2
\* Date.now() runs from 0 to MaxNow
MaxNow == 3
\* the function circuitBreaker returns is called at most MaxBreakerCalls times
MaxBreakerCalls == 3
\* processBatch is given 0..MaxItems items,
MaxItems == 3
\* batchSize in 1..MaxBatchSize
MaxBatchSize == 3
\* and concurrency in 1..MaxConcurrency
MaxConcurrency == 2
\* an AsyncPipeline is given at most MaxTransforms transforms
MaxTransforms == 2
\* customMap is given arrays of length 0..MaxArrayLen
MaxArrayLen == 3
\* compose and pipe are given 0..MaxFunctions functions
MaxFunctions == 3
\* and the composed function a value in 0..MaxValue
MaxValue == 3
\* a memoized function is called at most MaxMemoCalls times
MaxMemoCalls == 3
\* rateLimit is given maxCalls in 0..MaxMaxCalls and timeWindow in
\* 1..MaxTimeWindow, and the limited function is called at most MaxRateCalls
\* times, at clock readings 0..MaxNow
MaxMaxCalls == 2
MaxTimeWindow == 2
MaxRateCalls == 4
\* debounce and throttle are given a delay (limit) in 1..MaxDelay, the
\* function returned is called at most MaxTimedCalls times, and the clock of
\* the timers runs from 0 to MaxClock
MaxDelay == 2
MaxTimedCalls == 3
MaxClock == 5
\* a UserService is given at most MaxListeners listeners and at most
\* MaxAddUser calls of addUser
MaxListeners == 2
MaxAddUser == 2
\* an AsyncEventEmitter is given at most MaxListeners listeners and at most
\* MaxHandlers error handlers
MaxHandlers == 2
\* a TypedEventEmitter sees at most MaxEmitterOps calls of on, off and emit
MaxEmitterOps == 4
\* NumInstances UserRepositoryService instances are created, each with a
\* BussinessService and a UserController built on it
NumInstances == 2

(***************************************************************************)
(* JavaScript values.                                                      *)
(***************************************************************************)
Undefined == [t |-> "undefined"]
Null == [t |-> "null"]
NaN == [t |-> "NaN"]
\* a function object such as () => 1
Func == [t |-> "function"]
\* inside an object: a property whose value is the containing object itself
SelfRef == [t |-> "ref"]
JSTrue == [t |-> "boolean", v |-> TRUE]
JSFalse == [t |-> "boolean", v |-> FALSE]
Num(n) == [t |-> "number", v |-> n]
\* a string is the sequence of its lexemes
Str(s) == [t |-> "string", v |-> s]
\* a plain object is the sequence of its own properties <<key, value>>, in
\* insertion order
Obj(p) == [t |-> "object", p |-> p]

Names == {"John", "null"}
Ids == 1..MaxId
Callers == 1..NumCallers

Primitives ==
    {Undefined, Null, NaN, Func, Str(<<>>)}
        \cup {Num(i) : i \in Ids} \cup {Str(<<w>>) : w \in Names}

\* the values handed to saveUser / saveUserData (userDetails: any)
UserDetails ==
    Primitives
        \cup {Obj(<<>>)}
        \cup {Obj(<< <<"id", Num(i)>>, <<"name", Str(<<w>>)>> >>) : i \in Ids, w \in Names}
        \cup {Obj(<< <<"id", Num(i)>>, <<"name", x>> >>) : i \in Ids, x \in {Undefined, NaN, Null, Func}}
        \cup {Obj(<< <<"id", Num(i)>>, <<"self", SelfRef>> >>) : i \in Ids}

(***************************************************************************)
(* JSON.stringify (ECMAScript SerializeJSONProperty / SerializeJSONObject) *)
(* as called by saveUser.  The outcome of a call is a completion: it       *)
(* either throws or returns a value.                                       *)
(***************************************************************************)
Normal(v) == [threw |-> FALSE, val |-> v]
Throw == [threw |-> TRUE, val |-> Undefined]

\* QuoteJSONString; the lexemes of the modelled strings need no escaping
QuoteJSONString(s) == <<"\"">> \o s \o <<"\"">>

\* the JSON text of a value that is not an object, or "no text" for values
\* JSON has no representation of
SerializePrimitive(x) ==
    CASE x.t = "null" -> [def |-> TRUE, text |-> <<"null">>]
      [] x.t = "NaN" -> [def |-> TRUE, text |-> <<"null">>]
      [] x.t = "boolean" -> [def |-> TRUE, text |-> <<IF x.v THEN "true" ELSE "false">>]
      [] x.t = "number" -> [def |-> TRUE, text |-> <<ToString(x.v)>>]
      [] x.t = "string" -> [def |-> TRUE, text |-> QuoteJSONString(x.v)]
      [] OTHER -> [def |-> FALSE, text |-> <<>>]

RECURSIVE SerializeMembers(_)
\* the members "key":value of the properties that have a JSON text, in order
SerializeMembers(p) ==
    IF p = <<>> THEN <<>>
    ELSE LET s == SerializePrimitive(Head(p)[2])
             rest == SerializeMembers(Tail(p))
         IN IF s.def
            THEN <<QuoteJSONString(<<Head(p)[1]>>) \o <<":">> \o s.text>> \o rest
            ELSE rest

RECURSIVE JoinComma(_)
JoinComma(ms) ==
    IF ms = <<>> THEN <<>>
    ELSE IF Len(ms) = 1 THEN ms[1]
    ELSE ms[1] \o <<",">> \o JoinComma(Tail(ms))

\* the cycle check of SerializeJSONObject
IsCyclic(x) == x.t = "object" /\ \E i \in 1..Len(x.p) : x.p[i][2].t = "ref"

JSONstringify(x) ==
    IF x.t = "object"
    THEN IF IsCyclic(x) THEN Throw
         ELSE Normal(Str(<<"{">> \o JoinComma(SerializeMembers(x.p)) \o <<"}">>))
    ELSE LET s == SerializePrimitive(x)
         IN IF s.def THEN Normal(Str(s.text)) ELSE Normal(Undefined)

(***************************************************************************)
(* JSON.parse: the deserialization the round-trip law speaks of.  The      *)
(* argument is first converted to a string (ToString), then read by a      *)
(* recursive-descent parser: a completion that throws on a syntax error.   *)
(***************************************************************************)
ToStringValue(x) ==
    CASE x.t = "string" -> x.v
      [] x.t = "null" -> <<"null">>
      [] x.t = "undefined" -> <<"undefined">>
      [] OTHER -> <<"[object]">>

IsNumberLexeme(tok) == \E n \in 0..MaxId : ToString(n) = tok

NumberOf(tok) == CHOOSE n \in 0..MaxId : ToString(n) = tok

\* the position of the quote closing the string opened at position i, or 0
ClosingQuote(toks, i) ==
    IF \E j \in (i + 1)..Len(toks) : toks[j] = "\""
    THEN CHOOSE j \in (i + 1)..Len(toks) :
            /\ toks[j] = "\""
            /\ \A k \in (i + 1)..(j - 1) : toks[k] # "\""
    ELSE 0

\* a value that is not an object, read at position i: [ok, val, next]
ParsePrimitive(toks, i) ==
    IF i > Len(toks) THEN [ok |-> FALSE, val |-> Undefined, next |-> i]
    ELSE CASE toks[i] = "null" -> [ok |-> TRUE, val |-> Null, next |-> i + 1]
           [] toks[i] = "true" -> [ok |-> TRUE, val |-> JSTrue, next |-> i + 1]
           [] toks[i] = "false" -> [ok |-> TRUE, val |-> JSFalse, next |-> i + 1]
           [] toks[i] = "\"" ->
                LET j == ClosingQuote(toks, i)
                IN IF j = 0 THEN [ok |-> FALSE, val |-> Undefined, next |-> i]
                   ELSE [ok |-> TRUE, val |-> Str(SubSeq(toks, i + 1, j - 1)), next |-> j + 1]
           [] OTHER ->
                IF IsNumberLexeme(toks[i])
                THEN [ok |-> TRUE, val |-> Num(NumberOf(toks[i])), next |-> i + 1]
                ELSE [ok |-> FALSE, val |-> Undefined, next |-> i]

RECURSIVE ParseMembers(_, _, _)
\* the members of an object from position i on, up to the closing brace,
\* which must end the text; acc holds the properties read so far
ParseMembers(toks, i, acc) ==
    LET key == ParsePrimitive(toks, i)
    IN IF ~key.ok \/ key.val.t # "string" \/ Len(key.val.v) # 1 THEN Throw
       ELSE IF key.next > Len(toks) \/ toks[key.next] # ":" THEN Throw
       ELSE LET val == ParsePrimitive(toks, key.next + 1)
                props == Append(acc, <<key.val.v[1], val.val>>)
            IN IF ~val.ok \/ val.next > Len(toks) THEN Throw
               ELSE IF toks[val.next] = "}"
                    THEN IF val.next = Len(toks) THEN Normal(Obj(props)) ELSE Throw
               ELSE IF toks[val.next] = ","
                    THEN ParseMembers(toks, val.next + 1, props)
               ELSE Throw

JSONparse(x) ==
    LET toks == ToStringValue(x)
    IN IF toks = <<>> THEN Throw
       ELSE IF toks[1] = "{"
            THEN IF Len(toks) = 2 /\ toks[2] = "}" THEN Normal(Obj(<<>>))
                 ELSE ParseMembers(toks, 2, <<>>)
       ELSE LET v == ParsePrimitive(toks, 1)
            IN IF v.ok /\ v.next = Len(toks) + 1 THEN Normal(v.val) ELSE Throw

(***************************************************************************)
(* The mock localStorage.  The program state threaded through a call is    *)
(* the Map plus the trace of the method entries made during the call.      *)
(***************************************************************************)
LSuserDetails == "LSuserDetails"

\* ToBoolean, as used by the || operator
Truthy(x) ==
    CASE x.t = "string" -> x.v # <<>>
      [] x.t = "number" -> x.v # 0
      [] x.t = "boolean" -> x.v
      [] x.t \in {"undefined", "null", "NaN"} -> FALSE
      [] OTHER -> TRUE

\* Map.prototype.set
MapSet(m, key, value) == [k \in DOMAIN m \cup {key} |-> IF k = key THEN value ELSE m[k]]

\* Map.prototype.get
MapGet(m, key) == IF key \in DOMAIN m THEN m[key] ELSE Undefined

Result(st, ret, threw) == [st |-> st, ret |-> ret, threw |-> threw]

setItem(st, key, value) ==
    Result([st EXCEPT !.storage = MapSet(st.storage, key, value)], Undefined, FALSE)

\* getItem without the "|| null": a missing key reads as undefined
getItem_NoNullDefault(st, key) == Result(st, MapGet(st.storage, key), FALSE)

getItem(st, key) ==
    LET x == MapGet(st.storage, key)
    IN Result(st, IF Truthy(x) THEN x ELSE Null, FALSE)

Enter(st, layer, method, arg) ==
    [st EXCEPT !.trace = Append(st.trace, [layer |-> layer, method |-> method, arg |-> arg])]

(***************************************************************************)
(* UserRepositoryService                                                   *)
(***************************************************************************)
\* getAllUsers that takes the record out of the store (a read-once store)
Repository_getAllUsers_Consuming(st) ==
    LET r == getItem(Enter(st, "repository", "getAllUsers", Undefined), LSuserDetails)
    IN Result([r.st EXCEPT !.storage = <<>>], r.ret, r.threw)

Repository_getAllUsers(st) ==
    getItem(Enter(st, "repository", "getAllUsers", Undefined), LSuserDetails)

\* saveUser that writes under a misspelt key
Repository_saveUser_WrongKey(st, userDetails) ==
    LET st1 == Enter(st, "repository", "saveUser", userDetails)
        json == JSONstringify(userDetails)
    IN IF json.threw
       THEN Result(st1, JSFalse, FALSE)
       ELSE Result(setItem(st1, "LSUserDetails", json.val).st, JSTrue, FALSE)

\* saveUser that keeps a record already stored instead of overwriting it
Repository_saveUser_KeepFirst(st, userDetails) ==
    LET st1 == Enter(st, "repository", "saveUser", userDetails)
        json == JSONstringify(userDetails)
    IN IF json.threw
       THEN Result(st1, JSFalse, FALSE)
       ELSE IF Truthy(MapGet(st1.storage, LSuserDetails))
            THEN Result(st1, JSTrue, FALSE)
            ELSE Result(setItem(st1, LSuserDetails, json.val).st, JSTrue, FALSE)

\* saveUser that keeps one entry per kind of value (a multi-record store)
Repository_saveUser_KeyPerKind(st, userDetails) ==
    LET st1 == Enter(st, "repository", "saveUser", userDetails)
        json == JSONstringify(userDetails)
    IN IF json.threw
       THEN Result(st1, JSFalse, FALSE)
       ELSE Result(setItem(st1, LSuserDetails \o ":" \o userDetails.t, json.val).st,
                   JSTrue, FALSE)

Repository_saveUser(st, userDetails) ==
    LET st1 == Enter(st, "repository", "saveUser", userDetails)
        json == JSONstringify(userDetails)
    IN IF json.threw
       THEN Result(st1, JSFalse, FALSE)
       ELSE LET r == setItem(st1, LSuserDetails, json.val)
            IN IF r.threw THEN Result(r.st, JSFalse, FALSE)
               ELSE Result(r.st, JSTrue, FALSE)

(***************************************************************************)
(* BussinessService                                                        *)
(***************************************************************************)
Service_getAllUsers(st) ==
    Repository_getAllUsers(Enter(st, "service", "getAllUsers", Undefined))

\* saveUser with a validation of its own: a falsy argument is refused
Service_saveUser_Validating(st, userDetails) ==
    LET st1 == Enter(st, "service", "saveUser", userDetails)
    IN IF Truthy(userDetails) THEN Repository_saveUser(st1, userDetails)
       ELSE Result(st1, JSFalse, FALSE)

Service_saveUser(st, userDetails) ==
    Repository_saveUser(Enter(st, "service", "saveUser", userDetails), userDetails)

(***************************************************************************)
(* UserController                                                          *)
(***************************************************************************)
Controller_getAllUserData(st) ==
    Service_getAllUsers(Enter(st, "controller", "getAllUserData", Undefined))

Controller_saveUserData(st, userDetails) ==
    Service_saveUser(Enter(st, "controller", "saveUserData", userDetails), userDetails)

(***************************************************************************)
(* The state machine.  Every call is synchronous and runs to completion,   *)
(* so a call is one step.                                                  *)
(*   storage    the Map of localStorage                                    *)
(*   last       the most recent call: who made it, on which layer, its     *)
(*              argument, its outcome and the method entries it made       *)
(*   lastOk     the argument of the most recent save that returned true    *)
(*   saveCalls  whether any save has been called yet                       *)
(*   direct     the Map of a second run in which every call is issued on   *)
(*              the repository directly; directRet is that call's result   *)
(***************************************************************************)
NoCall ==
    [caller |-> 0, layer |-> "none", kind |-> "none", arg |-> Undefined,
     ret |-> Undefined, threw |-> FALSE, trace |-> <<>>, before |-> <<>>]

NoSave == [some |-> FALSE, arg |-> Undefined]

Init ==
    /\ storage = <<>>
    /\ last = NoCall
    /\ lastOk = NoSave
    /\ saveCalls = FALSE
    /\ direct = <<>>
    /\ directRet = Undefined
    /\ OthersIdle("di")

Start(m) == [storage |-> m, trace |-> <<>>]

Completed(c, layer, kind, arg, r, d) ==
    /\ storage' = r.st.storage
    /\ last' = [caller |-> c, layer |-> layer, kind |-> kind, arg |-> arg,
                ret |-> r.ret, threw |-> r.threw, trace |-> r.st.trace,
                before |-> storage]
    /\ lastOk' = IF kind = "save" /\ ~r.threw /\ r.ret = JSTrue
                 THEN [some |-> TRUE, arg |-> arg] ELSE lastOk
    /\ saveCalls' = (saveCalls \/ kind = "save")
    /\ direct' = d.st.storage
    /\ directRet' = d.ret
    /\ Frame("di")

ControllerSaveUserData(c, R) ==
    Completed(c, "controller", "save", R,
              Controller_saveUserData(Start(storage), R),
              Repository_saveUser(Start(direct), R))

ControllerGetAllUserData(c) ==
    Completed(c, "controller", "read", Undefined,
              Controller_getAllUserData(Start(storage)),
              Repository_getAllUsers(Start(direct)))

ServiceSaveUser(c, R) ==
    Completed(c, "service", "save", R,
              Service_saveUser(Start(storage), R),
              Repository_saveUser(Start(direct), R))

ServiceGetAllUsers(c) ==
    Completed(c, "service", "read", Undefined,
              Service_getAllUsers(Start(storage)),
              Repository_getAllUsers(Start(direct)))

RepositorySaveUser(c, R) ==
    Completed(c, "repository", "save", R,
              Repository_saveUser(Start(storage), R),
              Repository_saveUser(Start(direct), R))

RepositoryGetAllUsers(c) ==
    Completed(c, "repository", "read", Undefined,
              Repository_getAllUsers(Start(storage)),
              Repository_getAllUsers(Start(direct)))

Next ==
    \/ \E c \in Callers, R \in UserDetails : ControllerSaveUserData(c, R)
    \/ \E c \in Callers : ControllerGetAllUserData(c)
    \/ \E c \in Callers, R \in UserDetails : ServiceSaveUser(c, R)
    \/ \E c \in Callers : ServiceGetAllUsers(c)
    \/ \E c \in Callers, R \in UserDetails : RepositorySaveUser(c, R)
    \/ \E c \in Callers : RepositoryGetAllUsers(c)

Spec == Init /\ [][Next]_vars

(***************************************************************************)
(* Notions the claims are stated with.                                     *)
(***************************************************************************)
\* R is serializable: JSON.stringify(R) completes with a JSON text
Serializable(R) == ~JSONstringify(R).threw /\ JSONstringify(R).val.t = "string"

\* a value JSON represents faithfully: null, a boolean, a finite number or a
\* string
IsJSONPrimitive(x) == x.t \in {"null", "boolean", "number", "string"}

\* ... or a plain object whose properties are such values
IsJSONValue(R) ==
    \/ IsJSONPrimitive(R)
    \/ R.t = "object" /\ \A i \in 1..Len(R.p) : IsJSONPrimitive(R.p[i][2])

\* what getAllUsers() returns when issued in the current state
ReadNow == Repository_getAllUsers(Start(storage))

\* the store that holds one save of R made on a fresh store
FreshAfter(R) == Repository_saveUser(Start(<<>>), R).st.storage

\* the method entries a transparent call on the given layer consists of
SaveChain(R) ==
    << [layer |-> "controller", method |-> "saveUserData", arg |-> R],
       [layer |-> "service", method |-> "saveUser", arg |-> R],
       [layer |-> "repository", method |-> "saveUser", arg |-> R] >>

ReadChain ==
    << [layer |-> "controller", method |-> "getAllUserData", arg |-> Undefined],
       [layer |-> "service", method |-> "getAllUsers", arg |-> Undefined],
       [layer |-> "repository", method |-> "getAllUsers", arg |-> Undefined] >>

FromLayer(chain, layer) ==
    CASE layer = "controller" -> chain
      [] layer = "service" -> SubSeq(chain, 2, 3)
      [] layer = "repository" -> SubSeq(chain, 3, 3)
      [] OTHER -> <<>>

JohnDoe == Obj(<< <<"id", Num(1)>>, <<"name", Str(<<"John">>)>> >>)

(***************************************************************************)
(* C1  round-trip law                                                      *)
(***************************************************************************)
\* C1 as stated: after saveUser(R) of any serializable R, on any prior store,
\* the call returned true and the value an immediately following
\* getAllUsers() returns deserializes back to R.
C1_RoundTripSerializable ==
    (last.kind = "save" /\ Serializable(last.arg)) =>
        /\ last.ret = JSTrue
        /\ ~last.threw
        /\ ~JSONparse(ReadNow.ret).threw
        /\ JSONparse(ReadNow.ret).val = last.arg

\* C1 amended: the round-trip law holds for every R that is a JSON value
\* (null, a boolean, a finite number, a string, or a plain object of these):
\* saveUser(R) returned true and the following getAllUsers() returns a
\* string that JSON.parse reads back to R.
C1_RoundTripJSONValue ==
    (last.kind = "save" /\ IsJSONValue(last.arg)) =>
        /\ last.ret = JSTrue
        /\ ~last.threw
        /\ ~ReadNow.threw
        /\ ~JSONparse(ReadNow.ret).threw
        /\ JSONparse(ReadNow.ret).val = last.arg

\* a record was saved over a store that already held another one
C1_Witness ==
    /\ last.kind = "save"
    /\ last.arg = JohnDoe
    /\ last.ret = JSTrue
    /\ last.before # <<>>
    /\ JSONparse(ReadNow.ret).val = JohnDoe

(***************************************************************************)
(* C2  last write wins                                                     *)
(***************************************************************************)
\* C2: once some save has returned true, and Rn is the argument of the most
\* recent such save, getAllUsers() returns what it returns on a store that
\* only ever saw the one save of Rn (the JSON text of Rn whenever Rn has
\* one), and the store holds nothing else: no earlier record is retained.
C2_LastWriteWins ==
    lastOk.some =>
        /\ ReadNow.ret = Repository_getAllUsers(Start(FreshAfter(lastOk.arg))).ret
        /\ storage = FreshAfter(lastOk.arg)
        /\ Serializable(lastOk.arg) => ReadNow.ret = JSONstringify(lastOk.arg).val

\* a second successful save, made through the service, has replaced the
\* different text an earlier save had stored
C2_Witness ==
    /\ last.kind = "save"
    /\ last.layer = "service"
    /\ last.ret = JSTrue
    /\ lastOk.arg = last.arg
    /\ Serializable(last.arg)
    /\ last.before # <<>>
    /\ last.before[LSuserDetails].t = "string"
    /\ last.before[LSuserDetails] # JSONstringify(last.arg).val
    /\ ReadNow.ret = JSONstringify(last.arg).val

(***************************************************************************)
(* C3  a save of a non-serializable input                                  *)
(***************************************************************************)
\* C3: a save whose input is not serializable returned false, raised no
\* exception, and left the store exactly as it was before the call.
C3_NonSerializableRejected ==
    (last.kind = "save" /\ ~Serializable(last.arg)) =>
        /\ last.ret = JSFalse
        /\ ~last.threw
        /\ storage = last.before

(***************************************************************************)
(* C4  a read of a fresh store                                             *)
(***************************************************************************)
\* C4: as long as no save has been performed, a read through any layer
\* returns null and raises no error.
C4_FreshReadIsNull ==
    ~saveCalls =>
        /\ ReadNow.ret = Null
        /\ ~ReadNow.threw
        /\ last.kind = "read" => (last.ret = Null /\ ~last.threw)

\* a read was made through the controller before any save
C4_Witness ==
    /\ ~saveCalls
    /\ last.kind = "read"
    /\ last.layer = "controller"
    /\ last.ret = Null

(***************************************************************************)
(* C5  layer transparency                                                  *)
(***************************************************************************)
\* C5: whatever layers the calls so far were issued on, the store equals
\* the store of the run that issued every call on the repository directly,
\* the last call returned what the direct call returned, and the call
\* entered each lower layer exactly once, with the argument unchanged.
C5_LayerTransparency ==
    /\ storage = direct
    /\ last.kind # "none" => (last.ret = directRet /\ ~last.threw)
    /\ last.kind = "save" => last.trace = FromLayer(SaveChain(last.arg), last.layer)
    /\ last.kind = "read" => last.trace = FromLayer(ReadChain, last.layer)

\* a save through the controller was made after calls on other layers
C5_Witness ==
    /\ last.kind = "save"
    /\ last.layer = "controller"
    /\ last.ret = JSTrue
    /\ Len(last.trace) = 3
    /\ last.before # <<>>
    /\ storage # last.before

(***************************************************************************)
(* C6  true is returned only when a retrievable value was written          *)
(***************************************************************************)
\* C6: once a save has returned true, getAllUsers() does not return null.
C6_SavedImpliesRetrievable ==
    lastOk.some => (ReadNow.ret # Null /\ ReadNow.ret.t = "string")

(***************************************************************************)
(* C7  single record                                                       *)
(***************************************************************************)
\* C7: the store map holds at most one entry, and only under the key
\* "LSuserDetails".
C7_SingleRecord ==
    /\ Cardinality(DOMAIN storage) <= 1
    /\ DOMAIN storage \subseteq {"LSuserDetails"}

\* the entry was overwritten by a later successful save
C7_Witness ==
    /\ DOMAIN storage = {"LSuserDetails"}
    /\ last.kind = "save"
    /\ last.ret = JSTrue
    /\ last.before # <<>>
    /\ last.before # storage

(***************************************************************************)
(* C8  no deserialization on read                                          *)
(***************************************************************************)
\* C8: after a save of R that returned true, a read returns exactly the
\* serialized string the save wrote, a string and not the record R.
C8_ReadReturnsRawText ==
    lastOk.some =>
        /\ ReadNow.ret = JSONstringify(lastOk.arg).val
        /\ ReadNow.ret.t = "string"
        /\ ReadNow.ret # lastOk.arg

(***************************************************************************)
(* C9  last writer wins under interleaved callers                          *)
(***************************************************************************)
\* C9: whichever callers issued the calls, a read returned the serialized
\* form of the most recent save that returned true, or null if there was
\* none.
C9_ReadsSeeLastWriter ==
    last.kind = "read" =>
        last.ret = IF lastOk.some THEN JSONstringify(lastOk.arg).val ELSE Null

(***************************************************************************)
(* C10  reads change nothing                                               *)
(***************************************************************************)
\* C10: a read through any layer leaves the store as it was; a step that
\* changes the store is a save that reached the repository; and a read
\* that follows a read returns the same value.
C10_ReadsAreFrameSafe ==
    [][/\ last'.kind = "read" => storage' = storage
       /\ storage' # storage =>
            /\ last'.kind = "save"
            /\ last'.trace # <<>>
            /\ last'.trace[Len(last'.trace)].layer = "repository"
            /\ last'.trace[Len(last'.trace)].method = "saveUser"
       /\ (last.kind = "read" /\ last'.kind = "read") => last'.ret = last.ret]_vars

\* a read through the service found a stored record and left it in place
C10_Witness ==
    /\ last.kind = "read"
    /\ last.layer = "service"
    /\ lastOk.some
    /\ last.ret.t = "string"
    /\ storage = last.before

(***************************************************************************)
(* retryAsync (asyncCallbacks.ts), one call of the function it returns.    *)
(* retryWithBackoff (README) is the same loop without onRetry.             *)
(*   retry.maxRetries, baseDelay, onRetry   the arguments (onRetry: given) *)
(*   retry.pc        where the call is: "idle" (not called yet),           *)
(*                   "operation" (awaiting operation()), "onRetry"         *)
(*                   (awaiting onRetry), "delay" (awaiting the timer),     *)
(*                   "settled"                                             *)
(*   retry.attempt, retry.lastError   the locals of the loop               *)
(*   retry.outcome   how the returned promise settled                      *)
(*   retry.calls     the number of invocations of operation                *)
(*   retry.errors    the errors of the failed attempts, in order           *)
(*   retry.events    what happened, in order                               *)
(***************************************************************************)
Outcomes == 1..NumOutcomes

Pending == [kind |-> "pending", value |-> 0]
Fulfilled(v) == [kind |-> "fulfilled", value |-> v]
Rejected(e) == [kind |-> "rejected", value |-> e]

Event(ev, n, x) == [ev |-> ev, n |-> n, x |-> x]

RECURSIVE Pow2(_)
\* Math.pow(2, n)
Pow2(n) == IF n = 0 THEN 1 ELSE 2 * Pow2(n - 1)

\* a backoff computed from the attempt number that is logged, attempt + 1
BackoffDelay_FromOne(baseDelay, attempt) == baseDelay * Pow2(attempt + 1)

\* const delay = baseDelay * Math.pow(2, attempt)
BackoffDelay(baseDelay, attempt) == baseDelay * Pow2(attempt)

\* the loop condition attempt <= maxRetries
LoopContinues(attempt, maxRetries) == attempt <= maxRetries

\* if (attempt === maxRetries)
IsLastAttempt(attempt, maxRetries) == attempt = maxRetries

\* a catch that keeps the first error it saw
CaughtError_KeepFirst(lastError, error) == IF lastError = 0 THEN error ELSE lastError

\* lastError = error as Error
CaughtError(lastError, error) == error

InitRetry ==
    /\ \E m \in 0..MaxRetries, b \in 1..MaxBaseDelay, h \in BOOLEAN :
          retry = [maxRetries |-> m, baseDelay |-> b, onRetry |-> h,
                   pc |-> "idle", attempt |-> 0, lastError |-> 0,
                   outcome |-> Pending, calls |-> 0, errors |-> <<>>,
                   events |-> <<>>]
    /\ OthersIdle("retry")

\* return await operation(), attempt n
InvokeOperation(r, n) ==
    [r EXCEPT !.pc = "operation", !.attempt = n, !.calls = @ + 1,
              !.events = Append(@, Event("operation", n + 1, 0))]

\* the returned function is called; the loop is entered with attempt = 0
RetryCall ==
    /\ retry.pc = "idle"
    /\ retry' = IF LoopContinues(0, retry.maxRetries)
                THEN InvokeOperation(retry, 0)
                ELSE [retry EXCEPT !.pc = "settled", !.outcome = Rejected(retry.lastError)]
    /\ Frame("retry")

\* operation() fulfils with v: the call returns v
OperationFulfils(v) ==
    /\ retry.pc = "operation"
    /\ retry' = [retry EXCEPT !.pc = "settled", !.outcome = Fulfilled(v),
                              !.events = Append(@, Event("fulfilled", retry.attempt + 1, v))]
    /\ Frame("retry")

\* operation() rejects with e: the catch block up to its first await
OperationRejects(e) ==
    /\ retry.pc = "operation"
    /\ LET err == CaughtError(retry.lastError, e)
           r1 == [retry EXCEPT !.lastError = err, !.errors = Append(@, e)]
       IN retry' =
            IF IsLastAttempt(retry.attempt, retry.maxRetries)
            THEN [r1 EXCEPT !.pc = "settled", !.outcome = Rejected(err)]
            ELSE IF retry.onRetry
            THEN [r1 EXCEPT !.pc = "onRetry",
                            !.events = Append(@, Event("onRetry", retry.attempt + 1, err))]
            ELSE [r1 EXCEPT !.pc = "delay",
                            !.events = Append(@, Event("delay",
                                BackoffDelay(retry.baseDelay, retry.attempt), 0))]
    /\ Frame("retry")

\* onRetry(attempt + 1, lastError) fulfils: the timer is set
OnRetryFulfils ==
    /\ retry.pc = "onRetry"
    /\ retry' = [retry EXCEPT !.pc = "delay",
                              !.events = Append(@, Event("delay",
                                  BackoffDelay(retry.baseDelay, retry.attempt), 0))]
    /\ Frame("retry")

\* onRetry rejects with e: the exception leaves the catch block and the call
OnRetryRejects(e) ==
    /\ retry.pc = "onRetry"
    /\ retry' = [retry EXCEPT !.pc = "settled", !.outcome = Rejected(e)]
    /\ Frame("retry")

\* the timer fires: attempt++ and the loop condition is tested
DelayElapses ==
    /\ retry.pc = "delay"
    /\ retry' = IF LoopContinues(retry.attempt + 1, retry.maxRetries)
                THEN InvokeOperation(retry, retry.attempt + 1)
                ELSE [retry EXCEPT !.pc = "settled", !.attempt = @ + 1,
                                   !.outcome = Rejected(retry.lastError)]
    /\ Frame("retry")

NextRetry ==
    \/ RetryCall
    \/ \E v \in Outcomes : OperationFulfils(v)
    \/ \E e \in Outcomes : OperationRejects(e)
    \/ OnRetryFulfils
    \/ \E e \in Outcomes : OnRetryRejects(e)
    \/ DelayElapses

SpecRetry == InitRetry /\ [][NextRetry]_vars

(***************************************************************************)
(* C11  retry bound                                                        *)
(***************************************************************************)
\* C11: operation is invoked at most maxRetries + 1 times; a call that
\* fulfilled did so with the value of its last invocation, which was the
\* first to succeed, and invoked nothing after it; and once maxRetries + 1
\* attempts have failed the call is rejected with the error of the last one.
C11_RetryBound ==
    /\ retry.calls <= retry.maxRetries + 1
    /\ retry.calls = Cardinality({i \in 1..Len(retry.events) :
                                    retry.events[i].ev = "operation"})
    /\ retry.outcome.kind = "fulfilled" =>
         /\ retry.calls = Len(retry.errors) + 1
         /\ retry.events[Len(retry.events)] =
                Event("fulfilled", retry.calls, retry.outcome.value)
    /\ Len(retry.errors) = retry.maxRetries + 1 =>
         /\ retry.pc = "settled"
         /\ retry.outcome = Rejected(retry.errors[retry.maxRetries + 1])

\* every one of the maxRetries + 1 attempts failed, with different errors
C11_Witness ==
    /\ retry.maxRetries = MaxRetries
    /\ retry.onRetry
    /\ Len(retry.errors) = MaxRetries + 1
    /\ retry.calls = MaxRetries + 1
    /\ retry.errors[1] # retry.errors[MaxRetries + 1]
    /\ retry.outcome.kind = "rejected"

(***************************************************************************)
(* circuitBreaker (asyncCallbacks.ts).  The calls of the returned function *)
(* share the closure variables and may overlap: a call runs up to its      *)
(* await in one step and resumes when operation() settles.                 *)
(*   breaker.failureThreshold, timeoutMs   the arguments                   *)
(*   breaker.failures, lastFailureTime, state   the closure variables      *)
(*   breaker.clock     Date.now()                                          *)
(*   breaker.calls     the calls made so far: the now each one read and    *)
(*                     its status, "awaiting" (operation() pending),       *)
(*                     "fulfilled", "rejected" (by operation) or "open"    *)
(*                     (rejected with 'Circuit breaker is OPEN')           *)
(*   breaker.invoked   the number of invocations of operation              *)
(***************************************************************************)
\* now - lastFailureTime >= timeoutMs: the reset one millisecond early
TimeoutElapsed_Inclusive(now, lastFailureTime, timeoutMs) ==
    now - lastFailureTime >= timeoutMs

\* now - lastFailureTime > timeoutMs
TimeoutElapsed(now, lastFailureTime, timeoutMs) ==
    now - lastFailureTime > timeoutMs

InitBreaker ==
    /\ \E th \in 1..MaxThreshold, to \in 0..MaxTimeout :
          breaker = [failureThreshold |-> th, timeoutMs |-> to,
                     failures |-> 0, lastFailureTime |-> 0, state |-> "CLOSED",
                     clock |-> 0, calls |-> <<>>, invoked |-> 0]
    /\ OthersIdle("breaker")

\* state after "Check if circuit should be reset"
StateAfterResetCheck(b) ==
    IF b.state = "OPEN" /\ TimeoutElapsed(b.clock, b.lastFailureTime, b.timeoutMs)
    THEN "HALF_OPEN" ELSE b.state

\* a call of the returned function, up to its throw or its await
BreakerCall ==
    /\ Len(breaker.calls) < MaxBreakerCalls
    /\ LET st == StateAfterResetCheck(breaker)
       IN breaker' =
            IF st = "OPEN"
            THEN [breaker EXCEPT !.state = st,
                    !.calls = Append(@, [now |-> breaker.clock, status |-> "open",
                                         value |-> 0, probe |-> FALSE])]
            ELSE [breaker EXCEPT !.state = st,
                    !.invoked = @ + 1,
                    !.calls = Append(@, [now |-> breaker.clock, status |-> "awaiting",
                                         value |-> 0,
                                         probe |-> breaker.state = "OPEN"])]
    /\ Frame("breaker")

\* a reset on success that closes the circuit and keeps the failure count
BreakerFulfils_KeepCount(i, v) ==
    /\ i \in 1..Len(breaker.calls)
    /\ breaker.calls[i].status = "awaiting"
    /\ breaker' =
         [breaker EXCEPT
            !.state = IF breaker.state = "HALF_OPEN" THEN "CLOSED" ELSE @,
            !.calls[i].status = "fulfilled",
            !.calls[i].value = v]
    /\ Frame("breaker")

\* operation() of call i fulfils with v: "Reset on success", return result
BreakerFulfils(i, v) ==
    /\ i \in 1..Len(breaker.calls)
    /\ breaker.calls[i].status = "awaiting"
    /\ breaker' =
         [breaker EXCEPT
            !.state = IF breaker.state = "HALF_OPEN" THEN "CLOSED" ELSE @,
            !.failures = IF breaker.state = "HALF_OPEN" THEN 0 ELSE @,
            !.calls[i].status = "fulfilled",
            !.calls[i].value = v]
    /\ Frame("breaker")

\* operation() of call i rejects with e: the catch block
BreakerRejects(i, e) ==
    /\ i \in 1..Len(breaker.calls)
    /\ breaker.calls[i].status = "awaiting"
    /\ breaker' =
         [breaker EXCEPT
            !.failures = @ + 1,
            !.lastFailureTime = breaker.calls[i].now,
            !.state = IF breaker.failures + 1 >= breaker.failureThreshold
                      THEN "OPEN" ELSE @,
            !.calls[i].status = "rejected",
            !.calls[i].value = e]
    /\ Frame("breaker")

\* a millisecond passes
BreakerTick ==
    /\ breaker.clock < MaxNow
    /\ breaker' = [breaker EXCEPT !.clock = @ + 1]
    /\ Frame("breaker")

NextBreaker ==
    \/ BreakerCall
    \/ \E i \in 1..MaxBreakerCalls, v \in Outcomes : BreakerFulfils(i, v)
    \/ \E i \in 1..MaxBreakerCalls, e \in Outcomes : BreakerRejects(i, e)
    \/ BreakerTick

SpecBreaker == InitBreaker /\ [][NextBreaker]_vars

(***************************************************************************)
(* C12  rejection while the circuit is open                                *)
(***************************************************************************)
\* a step in which the returned function is called
BreakerCallStep == Len(breaker'.calls) = Len(breaker.calls) + 1

\* C12: a call that starts while state is OPEN, no more than timeoutMs after
\* lastFailureTime, is rejected with 'Circuit breaker is OPEN', does not
\* invoke operation, and leaves failures, lastFailureTime and state as they
\* were.
C12_OpenRejects ==
    [][(/\ BreakerCallStep
        /\ breaker.state = "OPEN"
        /\ breaker.clock - breaker.lastFailureTime <= breaker.timeoutMs)
       => /\ breaker'.calls[Len(breaker'.calls)].status = "open"
          /\ breaker'.invoked = breaker.invoked
          /\ breaker'.failures = breaker.failures
          /\ breaker'.lastFailureTime = breaker.lastFailureTime
          /\ breaker'.state = "OPEN"]_vars

\* a call was rejected as open exactly timeoutMs after the last failure
C12_Witness ==
    /\ breaker.state = "OPEN"
    /\ breaker.timeoutMs > 0
    /\ breaker.calls # <<>>
    /\ breaker.calls[Len(breaker.calls)].status = "open"
    /\ breaker.calls[Len(breaker.calls)].now - breaker.lastFailureTime = breaker.timeoutMs
    /\ breaker.failures >= breaker.failureThreshold

(***************************************************************************)
(* processBatch (asyncCallbacks.ts).  The items are numbered 1..n; the     *)
(* code's 0-based indices i and j are kept.                                *)
(*   batch.n, batchSize, concurrency   the arguments (n = items.length)    *)
(*   batch.pc       "idle", "awaiting" (in await Promise.allSettled) or    *)
(*                  "done" (returned)                                      *)
(*   batch.i, batch.j   the loop variables                                 *)
(*   batch.status   per item, the state of its processor call:             *)
(*                  "notStarted", "inFlight", "fulfilled" or "rejected"    *)
(*   batch.results  the array results: the items whose values were pushed  *)
(***************************************************************************)
Min(a, b) == IF a < b THEN a ELSE b

\* the items of items.slice(i, i + batchSize), as item numbers
BatchItems(b, i) == (i + 1)..Min(i + b.batchSize, b.n)

\* the items of batchPromises.slice(j, j + concurrency)
GroupItems(b) ==
    (b.i + b.j + 1)..Min(b.i + Min(b.j + b.concurrency, b.batchSize), b.n)

\* batch.map(async (item) => await processor(item)): processor is invoked
\* for every item of the batch
StartBatch(b, i) ==
    [b EXCEPT !.i = i, !.j = 0, !.pc = "awaiting",
              !.status = [k \in 1..b.n |->
                            IF k \in BatchItems(b, i) THEN "inFlight" ELSE @[k]],
              !.started = [k \in 1..b.n |->
                            IF k \in BatchItems(b, i) THEN @[k] + 1 ELSE @[k]]]

\* a loop over batchResults that pushes whatever settled, from..to
PushFulfilled_All(status, from, to) == [k \in 1..(to - from + 1) |-> from + k - 1]

RECURSIVE PushFulfilled(_, _, _)
\* for (const result of batchResults): the values pushed, over the items
\* from..to of a group
PushFulfilled(status, from, to) ==
    IF from > to THEN <<>>
    ELSE LET rest == PushFulfilled(status, from + 1, to)
         IN IF status[from] = "fulfilled" THEN <<from>> \o rest ELSE rest

InitBatch ==
    /\ \E n \in 0..MaxItems, bs \in 1..MaxBatchSize, c \in 1..MaxConcurrency :
          batch = [n |-> n, batchSize |-> bs, concurrency |-> c,
                   pc |-> "idle", i |-> 0, j |-> 0,
                   status |-> [k \in 1..n |-> "notStarted"],
                   started |-> [k \in 1..n |-> 0],
                   results |-> <<>>]
    /\ OthersIdle("batch")

\* processBatch is called: up to the first await, or the return of []
BatchCall ==
    /\ batch.pc = "idle"
    /\ batch' = IF 0 < batch.n THEN StartBatch(batch, 0)
                ELSE [batch EXCEPT !.pc = "done"]
    /\ Frame("batch")

\* processor(item k) fulfils
ProcessorFulfils(k) ==
    /\ k \in 1..batch.n
    /\ batch.status[k] = "inFlight"
    /\ batch' = [batch EXCEPT !.status[k] = "fulfilled"]
    /\ Frame("batch")

\* processor(item k) rejects
ProcessorRejects(k) ==
    /\ k \in 1..batch.n
    /\ batch.status[k] = "inFlight"
    /\ batch' = [batch EXCEPT !.status[k] = "rejected"]
    /\ Frame("batch")

\* Promise.allSettled(concurrentBatch) resolves: the results of the group
\* are pushed, and the loops run on to the next await or to the return
GroupSettles ==
    /\ batch.pc = "awaiting"
    /\ \A k \in GroupItems(batch) : batch.status[k] \in {"fulfilled", "rejected"}
    /\ LET pushed == [batch EXCEPT !.results =
                        @ \o PushFulfilled(batch.status,
                                           batch.i + batch.j + 1,
                                           Min(batch.i + Min(batch.j + batch.concurrency,
                                                             batch.batchSize), batch.n))]
           j2 == batch.j + batch.concurrency
           batchLen == Cardinality(BatchItems(batch, batch.i))
           i2 == batch.i + batch.batchSize
       IN batch' =
            IF j2 < batchLen THEN [pushed EXCEPT !.j = j2]
            ELSE IF i2 < batch.n THEN StartBatch(pushed, i2)
            ELSE [pushed EXCEPT !.pc = "done", !.i = i2, !.j = j2]
    /\ Frame("batch")

NextBatch ==
    \/ BatchCall
    \/ \E k \in 1..MaxItems : ProcessorFulfils(k)
    \/ \E k \in 1..MaxItems : ProcessorRejects(k)
    \/ GroupSettles

SpecBatch == InitBatch /\ [][NextBatch]_vars

(***************************************************************************)
(* C13  concurrency limit of processBatch                                  *)
(***************************************************************************)
\* the processor invocations started and not yet settled
InFlight == {k \in 1..batch.n : batch.status[k] = "inFlight"}

\* C13: at no point are more than concurrency processor invocations in
\* flight.
C13_ConcurrencyLimit == Cardinality(InFlight) <= batch.concurrency

(***************************************************************************)
(* AsyncPipeline (asyncCallbacks.ts): the pipeline is built with           *)
(* addTransform / addErrorHandler and then process(data) is called once.   *)
(*   pipeline.operations     the array operations; a transform is known    *)
(*                           here by the name it was added with, which the *)
(*                           array itself does not hold                    *)
(*   pipeline.errorHandlers  the keys of the Map errorHandlers; a handler  *)
(*                           is known by the key it was registered under   *)
(*   pipeline.pc             "building", "transform" (awaiting             *)
(*                           operations[i]), "handler" (awaiting the       *)
(*                           handler) or "done"                            *)
(*   pipeline.i, result      the locals of process; result is the list of  *)
(*                           the transforms applied to data                *)
(*   pipeline.thrown         the errors thrown, by index of the transform  *)
(*   pipeline.handled        <<i, key, error>>: the handler registered     *)
(*                           under key was invoked with the error of       *)
(*                           transform i                                   *)
(*   pipeline.outcome        how process settled; pipeline.cause is        *)
(*                           "transform" when it rethrew a transform's     *)
(*                           error                                         *)
(***************************************************************************)
OperationNames == {"validate", "enrich"} \cup {"operation_" \o ToString(i) : i \in 0..(MaxTransforms - 1)}

\* const operationName = `operation_${i}`
HandlerKey(ops, i) == "operation_" \o ToString(i)

InitPipeline ==
    /\ pipeline = [operations |-> <<>>, errorHandlers |-> {}, pc |-> "building",
                   i |-> 0, result |-> <<>>, thrown |-> <<>>, handled |-> {},
                   outcome |-> Pending, cause |-> "none"]
    /\ OthersIdle("pipeline")

AddTransform(name) ==
    /\ pipeline.pc = "building"
    /\ Len(pipeline.operations) < MaxTransforms
    /\ pipeline' = [pipeline EXCEPT !.operations = Append(@, name)]
    /\ Frame("pipeline")

AddErrorHandler(operationName) ==
    /\ pipeline.pc = "building"
    /\ pipeline' = [pipeline EXCEPT !.errorHandlers = @ \cup {operationName}]
    /\ Frame("pipeline")

\* the loop test i < operations.length, then the await or the return
RunFrom(pl, i) ==
    IF i < Len(pl.operations)
    THEN [pl EXCEPT !.i = i, !.pc = "transform"]
    ELSE [pl EXCEPT !.i = i, !.pc = "done", !.outcome = Fulfilled(pl.result)]

\* process(data) is called
ProcessCall ==
    /\ pipeline.pc = "building"
    /\ pipeline' = RunFrom(pipeline, 0)
    /\ Frame("pipeline")

\* operations[i](result) fulfils
TransformFulfils ==
    /\ pipeline.pc = "transform"
    /\ pipeline' = RunFrom([pipeline EXCEPT
                              !.result = Append(@, pipeline.operations[pipeline.i + 1])],
                           pipeline.i + 1)
    /\ Frame("pipeline")

\* operations[i](result) rejects with e: the catch block
TransformRejects(e) ==
    /\ pipeline.pc = "transform"
    /\ LET key == HandlerKey(pipeline.operations, pipeline.i)
           pl == [pipeline EXCEPT !.thrown = Append(@, [i |-> pipeline.i, error |-> e])]
       IN pipeline' =
            IF key \in pipeline.errorHandlers
            THEN [pl EXCEPT !.pc = "handler",
                            !.handled = @ \cup {<<pipeline.i, key, e>>}]
            ELSE [pl EXCEPT !.pc = "done", !.outcome = Rejected(e),
                            !.cause = "transform"]
    /\ Frame("pipeline")

\* the handler fulfils: the loop goes on with the next transform
HandlerFulfils ==
    /\ pipeline.pc = "handler"
    /\ pipeline' = RunFrom(pipeline, pipeline.i + 1)
    /\ Frame("pipeline")

\* the handler rejects with e: process rejects with e
HandlerRejects(e) ==
    /\ pipeline.pc = "handler"
    /\ pipeline' = [pipeline EXCEPT !.pc = "done", !.outcome = Rejected(e),
                                    !.cause = "handler"]
    /\ Frame("pipeline")

NextPipeline ==
    \/ \E name \in OperationNames : AddTransform(name)
    \/ \E name \in OperationNames : AddErrorHandler(name)
    \/ ProcessCall
    \/ TransformFulfils
    \/ \E e \in Outcomes : TransformRejects(e)
    \/ HandlerFulfils
    \/ \E e \in Outcomes : HandlerRejects(e)

SpecPipeline == InitPipeline /\ [][NextPipeline]_vars

(***************************************************************************)
(* C14  per-operation error handler                                        *)
(***************************************************************************)
\* C14: when a transform added under a name threw and a handler is
\* registered for that name, that handler was invoked with the error, and
\* process did not reject with the transform's error.
C14_NamedHandlerRuns ==
    \A k \in 1..Len(pipeline.thrown) :
        LET t == pipeline.thrown[k]
            name == pipeline.operations[t.i + 1]
        IN name \in pipeline.errorHandlers =>
             /\ <<t.i, name, t.error>> \in pipeline.handled
             /\ pipeline.cause # "transform"

(***************************************************************************)
(* customMap (higherOrderFunctions.ts, as listed in the README).  A pure   *)
(* function: the specification draws its arguments and applies it.         *)
(*   cmap.array, cmap.callback   the arguments                             *)
(*   cmap.pc       "idle" or "returned"                                    *)
(*   cmap.result   the array returned                                      *)
(***************************************************************************)
Elements == {Undefined, Num(1), Num(2)}

Callbacks == {"double", "label"}

Arrays(S, n) == UNION {[1..k -> S] : k \in 0..n}

\* callback(item, index): the application, left uninterpreted
ApplyCallback(callback, item, index) ==
    [callback |-> callback, item |-> item, index |-> index]

RECURSIVE CustomMapLoop(_, _, _)
\* for (let i = ...; i < array.length; i++), from index i (0-based) on
CustomMapLoop(array, callback, i) ==
    IF ~(i < Len(array)) THEN <<>>
    ELSE LET item == array[i + 1]
             rest == CustomMapLoop(array, callback, i + 1)
         IN IF item # Undefined
            THEN <<ApplyCallback(callback, item, i)>> \o rest
            ELSE rest

customMap(array, callback) == CustomMapLoop(array, callback, 0)

InitCustomMap ==
    /\ \E a \in Arrays(Elements, MaxArrayLen), cb \in Callbacks :
          cmap = [array |-> a, callback |-> cb, pc |-> "idle", result |-> <<>>]
    /\ OthersIdle("cmap")

CustomMapCall ==
    /\ cmap.pc = "idle"
    /\ cmap' = [cmap EXCEPT !.pc = "returned",
                            !.result = customMap(cmap.array, cmap.callback)]
    /\ Frame("cmap")

NextCustomMap == CustomMapCall

SpecCustomMap == InitCustomMap /\ [][NextCustomMap]_vars

(***************************************************************************)
(* C15  customMap is an elementwise map                                    *)
(***************************************************************************)
\* C15: the array returned has the length of the input and holds, at every
\* index i, callback(array[i], i).
C15_ElementwiseMap ==
    cmap.pc = "returned" =>
        /\ Len(cmap.result) = Len(cmap.array)
        /\ \A i \in 1..Len(cmap.array) :
              cmap.result[i] = ApplyCallback(cmap.callback, cmap.array[i], i - 1)

(***************************************************************************)
(* compose and pipe (higherOrderFunctions.ts, as listed in the README).    *)
(*   composition.composeFns   the arguments of compose(...)                *)
(*   composition.pipeFns      the arguments of pipe(...)                   *)
(*   composition.value        the value both results are applied to        *)
(*   composition.composed     compose(...composeFns)(value), once returned *)
(*   composition.piped        pipe(...pipeFns)(value), once returned       *)
(*   composition.composePc, composition.pipePc   "idle" or "returned"      *)
(***************************************************************************)
\* the functions of the README's example 5
FunctionNames == {"addOne", "multiplyByTwo", "subtractThree"}

Call(fn, x) ==
    CASE fn = "addOne" -> x + 1
      [] fn = "multiplyByTwo" -> x * 2
      [] fn = "subtractThree" -> x - 3

RECURSIVE Reduce(_, _, _)
\* functions.reduce((acc, fn) => fn(acc), value): visits index i, i+1, ...
Reduce(functions, acc, i) ==
    IF i > Len(functions) THEN acc
    ELSE Reduce(functions, Call(functions[i], acc), i + 1)

RECURSIVE ReduceRight(_, _, _)
\* functions.reduceRight((acc, fn) => fn(acc), value): visits index i, i-1, ...
ReduceRight(functions, acc, i) ==
    IF i < 1 THEN acc
    ELSE ReduceRight(functions, Call(functions[i], acc), i - 1)

\* a compose that folds from the left
compose_LeftFold(functions, value) == Reduce(functions, value, 1)

compose(functions, value) == ReduceRight(functions, value, Len(functions))

pipe(functions, value) == Reduce(functions, value, 1)

InitComposition ==
    /\ \E cf \in Arrays(FunctionNames, MaxFunctions),
          pf \in Arrays(FunctionNames, MaxFunctions),
          x \in 0..MaxValue :
          composition = [composeFns |-> cf, pipeFns |-> pf, value |-> x,
                         composed |-> 0, piped |-> 0,
                         composePc |-> "idle", pipePc |-> "idle"]
    /\ OthersIdle("composition")

ComposeCall ==
    /\ composition.composePc = "idle"
    /\ composition' = [composition EXCEPT
           !.composePc = "returned",
           !.composed = compose(composition.composeFns, composition.value)]
    /\ Frame("composition")

PipeCall ==
    /\ composition.pipePc = "idle"
    /\ composition' = [composition EXCEPT
           !.pipePc = "returned",
           !.piped = pipe(composition.pipeFns, composition.value)]
    /\ Frame("composition")

NextComposition == ComposeCall \/ PipeCall

SpecComposition == InitComposition /\ [][NextComposition]_vars

(***************************************************************************)
(* C16  compose is right-to-left, pipe left-to-right                       *)
(***************************************************************************)
Reverse(s) == [i \in 1..Len(s) |-> s[Len(s) + 1 - i]]

RECURSIVE Nested(_, _)
\* f1(f2(...fn(x))) for fs = <<f1, ..., fn>>
Nested(fs, x) == IF fs = <<>> THEN x ELSE Call(Head(fs), Nested(Tail(fs), x))

\* C16: compose(f1, ..., fn)(x) = f1(f2(...fn(x))); pipe(f1, ..., fn)(x) =
\* fn(...f2(f1(x))); compose(f1, ..., fn)(x) = pipe(fn, ..., f1)(x); with no
\* functions both return x.
C16_ComposePipe ==
    LET c == composition IN
    /\ c.composePc = "returned" =>
          /\ c.composed = Nested(c.composeFns, c.value)
          /\ c.composeFns = <<>> => c.composed = c.value
    /\ c.pipePc = "returned" =>
          /\ c.piped = Nested(Reverse(c.pipeFns), c.value)
          /\ c.pipeFns = <<>> => c.piped = c.value
    /\ (c.composePc = "returned" /\ c.pipePc = "returned"
           /\ c.pipeFns = Reverse(c.composeFns)) => c.composed = c.piped

\* the README's example: compose(addOne, multiplyByTwo, subtractThree)(3) and
\* pipe(subtractThree, multiplyByTwo, addOne)(3) are both 1, and the order
\* matters: the same functions folded the other way give 5
C16_Witness ==
    /\ composition.composePc = "returned"
    /\ composition.pipePc = "returned"
    /\ composition.composeFns = <<"addOne", "multiplyByTwo", "subtractThree">>
    /\ composition.pipeFns = <<"subtractThree", "multiplyByTwo", "addOne">>
    /\ composition.value = 3
    /\ composition.composed = 1
    /\ composition.piped = 1
    /\ Nested(composition.pipeFns, composition.value) = 5

(***************************************************************************)
(* memoize (arrowfunctionExampleHigerOrderFUnc.ts).  One memoized function *)
(* and the calls made to it, one after the other.                          *)
(*   memo.keyGenerator   NoKeyGenerator or the key generator passed        *)
(*   memo.cache          the Map of the closure: key -> result             *)
(*   memo.n              the number of calls made                          *)
(*   memo.last           the last call: its key, whether fn was invoked,   *)
(*                       whether it threw, the value it returned           *)
(* History, for the claims:                                                *)
(*   memo.returns        key -> number of invocations of fn that returned  *)
(*   memo.first          key -> the value of the first of them             *)
(***************************************************************************)
\* the argument lists (...args) the memoized function is called with
ArgLists ==
    {<<>>, <<Num(1)>>, <<Num(2)>>, <<Undefined>>, <<Null>>, <<Num(1), Num(2)>>}

\* what fn(...args) returns when it returns
FnResults == {Undefined} \cup {Num(v) : v \in Outcomes}

NoKeyGenerator == "none"

\* a key generator: (...args) => String(args.length)
KeyGenerators == {"byLength"}

\* the text of an array element: undefined and functions are written null
SerializeElement(x) ==
    LET s == SerializePrimitive(x) IN IF s.def THEN s.text ELSE <<"null">>

\* JSON.stringify(args), args an array of values that are not objects
JSONstringifyArray(args) ==
    <<"[">> \o JoinComma([i \in 1..Len(args) |-> SerializeElement(args[i])])
           \o <<"]">>

\* const key = keyGenerator ? keyGenerator(...args) : JSON.stringify(args)
CacheKey(keyGenerator, args) ==
    IF keyGenerator # NoKeyGenerator
    THEN <<ToString(Len(args))>>
    ELSE JSONstringifyArray(args)

\* a test of the cached value in place of cache.has
CacheHas_ByValue(cache, key) == MapGet(cache, key) # Undefined

\* cache.has(key)
CacheHas(cache, key) == key \in DOMAIN cache

NoMemoCall == [key |-> <<>>, args |-> <<>>, invoked |-> FALSE, threw |-> FALSE,
               value |-> Undefined, hit |-> FALSE]

InitMemo ==
    /\ \E kg \in {NoKeyGenerator} \cup KeyGenerators :
          memo = [keyGenerator |-> kg, cache |-> <<>>, n |-> 0,
                  last |-> NoMemoCall, returns |-> <<>>, first |-> <<>>]
    /\ OthersIdle("memo")

\* a call of the memoized function that finds its key in the cache
MemoHit(args) ==
    LET key == CacheKey(memo.keyGenerator, args) IN
    /\ memo.n < MaxMemoCalls
    /\ CacheHas(memo.cache, key)
    /\ memo' = [memo EXCEPT
          !.n = @ + 1,
          !.last = [key |-> key, args |-> args, invoked |-> FALSE,
                    threw |-> FALSE, value |-> MapGet(memo.cache, key),
                    hit |-> key \in DOMAIN memo.first]]
    /\ Frame("memo")

\* a call that does not, fn returning result
MemoMissReturns(args, result) ==
    LET key == CacheKey(memo.keyGenerator, args) IN
    /\ memo.n < MaxMemoCalls
    /\ ~CacheHas(memo.cache, key)
    /\ memo' = [memo EXCEPT
          !.n = @ + 1,
          !.cache = MapSet(@, key, result),
          !.returns = MapSet(@, key, IF key \in DOMAIN @ THEN @[key] + 1 ELSE 1),
          !.first = IF key \in DOMAIN @ THEN @ ELSE MapSet(@, key, result),
          !.last = [key |-> key, args |-> args, invoked |-> TRUE,
                    threw |-> FALSE, value |-> result,
                    hit |-> key \in DOMAIN memo.first]]
    /\ Frame("memo")

\* a call that does not, fn throwing: the exception leaves the cache as it is
MemoMissThrows(args) ==
    LET key == CacheKey(memo.keyGenerator, args) IN
    /\ memo.n < MaxMemoCalls
    /\ ~CacheHas(memo.cache, key)
    /\ memo' = [memo EXCEPT
          !.n = @ + 1,
          !.last = [key |-> key, args |-> args, invoked |-> TRUE,
                    threw |-> TRUE, value |-> Undefined,
                    hit |-> key \in DOMAIN memo.first]]
    /\ Frame("memo")

NextMemo ==
    \E args \in ArgLists :
       \/ MemoHit(args)
       \/ \E result \in FnResults : MemoMissReturns(args, result)
       \/ MemoMissThrows(args)

SpecMemo == InitMemo /\ [][NextMemo]_vars

(***************************************************************************)
(* C17  memoize invokes fn once per cache key                              *)
(***************************************************************************)
\* C17: of the invocations of fn that return, there is exactly one per cache
\* key called with, and every later call with that key returns the value the
\* first one computed, without invoking fn.
C17_OncePerKey ==
    /\ \A key \in DOMAIN memo.returns : memo.returns[key] = 1
    /\ memo.last.hit =>
          /\ ~memo.last.invoked
          /\ ~memo.last.threw
          /\ memo.last.value = memo.first[memo.last.key]

\* fn threw on [undefined], then returned undefined on [null] (the same key
\* "[null]"), and a third call with that key was served from the cache
C17_Witness ==
    /\ memo.keyGenerator = NoKeyGenerator
    /\ memo.n = 3
    /\ memo.last.hit /\ ~memo.last.invoked
    /\ memo.last.args = <<Undefined>>
    /\ memo.last.key = <<"[", "null", "]">>
    /\ memo.first[memo.last.key] = Undefined
    /\ memo.returns[memo.last.key] = 1

(***************************************************************************)
(* rateLimit (arrowfunctionExampleHigerOrderFUnc.ts).  One rate-limited    *)
(* function, the clock Date.now() reads, and the calls made.               *)
(*   limiter.maxCalls, limiter.timeWindow   the arguments of rateLimit     *)
(*   limiter.calls     the array of the closure: times of counted calls    *)
(*   limiter.clock     what Date.now() returns; it never goes back         *)
(*   limiter.n         the number of calls made                            *)
(*   limiter.last      the last call: when, whether skipped, what returned *)
(* History, for the claims:                                                *)
(*   limiter.invoked   the times at which fn was invoked                   *)
(***************************************************************************)
RECURSIVE DropExpired(_, _, _)
\* while (calls.length > 0 && calls[0] <= now - timeWindow) calls.shift()
DropExpired(calls, now, timeWindow) ==
    IF Len(calls) > 0 /\ calls[1] <= now - timeWindow
    THEN DropExpired(Tail(calls), now, timeWindow)
    ELSE calls

\* a limit test that lets one call too many through
LimitReached_OffByOne(calls, maxCalls) == Len(calls) > maxCalls

\* if (calls.length >= maxCalls)
LimitReached(calls, maxCalls) == Len(calls) >= maxCalls

NoRateCall == [now |-> 0, skipped |-> FALSE, threw |-> FALSE,
               value |-> Undefined, recent |-> 0]

\* the number of invocations of fn at times t with from <= t < to
InvokedIn(log, from, to) ==
    Cardinality({i \in 1..Len(log) : from <= log[i] /\ log[i] < to})

InitLimiter ==
    /\ \E mc \in 0..MaxMaxCalls, tw \in 1..MaxTimeWindow :
          limiter = [maxCalls |-> mc, timeWindow |-> tw, calls |-> <<>>,
                     clock |-> 0, n |-> 0, last |-> NoRateCall,
                     invoked |-> <<>>]
    /\ OthersIdle("limiter")

\* a call that is skipped
RateCallSkipped ==
    LET now == limiter.clock
        kept == DropExpired(limiter.calls, now, limiter.timeWindow)
    IN /\ limiter.n < MaxRateCalls
       /\ LimitReached(kept, limiter.maxCalls)
       /\ limiter' = [limiter EXCEPT
             !.n = @ + 1,
             !.calls = kept,
             !.last = [now |-> now, skipped |-> TRUE, threw |-> FALSE,
                       value |-> Undefined,
                       recent |-> InvokedIn(limiter.invoked,
                                            now - limiter.timeWindow + 1, now + 1)]]
       /\ Frame("limiter")

\* a call that is let through: fn returns result, or throws
RateCallInvokes(result, throws) ==
    LET now == limiter.clock
        kept == DropExpired(limiter.calls, now, limiter.timeWindow)
    IN /\ limiter.n < MaxRateCalls
       /\ ~LimitReached(kept, limiter.maxCalls)
       /\ limiter' = [limiter EXCEPT
             !.n = @ + 1,
             !.calls = Append(kept, now),
             !.invoked = Append(@, now),
             !.last = [now |-> now, skipped |-> FALSE, threw |-> throws,
                       value |-> IF throws THEN Undefined ELSE result,
                       recent |-> InvokedIn(limiter.invoked,
                                            now - limiter.timeWindow + 1, now + 1)]]
       /\ Frame("limiter")

\* time passes
RateTick ==
    /\ limiter.clock < MaxNow
    /\ limiter' = [limiter EXCEPT !.clock = @ + 1]
    /\ Frame("limiter")

NextLimiter ==
    \/ RateCallSkipped
    \/ \E result \in FnResults, throws \in BOOLEAN : RateCallInvokes(result, throws)
    \/ RateTick

SpecLimiter == InitLimiter /\ [][NextLimiter]_vars

(***************************************************************************)
(* C18  rateLimit: at most maxCalls invocations per time window            *)
(***************************************************************************)
IsSuffix(s, t) ==
    /\ Len(s) <= Len(t)
    /\ \A i \in 1..Len(s) : s[i] = t[Len(t) - Len(s) + i]

\* C18: in every window [a, a + timeWindow) fn is invoked at most maxCalls
\* times; a call made when maxCalls invocations lie within the last
\* timeWindow ms is skipped and returns undefined; and only invocations are
\* counted: the counted calls are the latest invocations.
C18_RateLimit ==
    /\ \A a \in (0 - MaxTimeWindow)..MaxNow :
          InvokedIn(limiter.invoked, a, a + limiter.timeWindow) <= limiter.maxCalls
    /\ (limiter.n > 0 /\ limiter.last.recent >= limiter.maxCalls) =>
          /\ limiter.last.skipped
          /\ limiter.last.value = Undefined
    /\ limiter.last.skipped => limiter.last.recent >= limiter.maxCalls
    /\ IsSuffix(limiter.calls, limiter.invoked)

\* two invocations at time 0 with maxCalls 2, a third call skipped within the
\* window, and a fourth let through once the window has passed
C18_Witness ==
    /\ limiter.maxCalls = 2 /\ limiter.timeWindow = 2
    /\ limiter.invoked = <<0, 0, 2>>
    /\ limiter.n = 4
    /\ limiter.last.now = 2 /\ ~limiter.last.skipped

(***************************************************************************)
(* Timers (setTimeout / clearTimeout).  A timer is a record with its id,   *)
(* the time it is due and what its callback does.  Timers are taken to be  *)
(* punctual: the callback of a due timer runs before the clock advances    *)
(* and before any other code runs.                                         *)
(***************************************************************************)
\* clearTimeout that cancels nothing
clearTimeout_NoOp(timers, id) == timers

\* clearTimeout(id): no timer has id 0, the id of `undefined`
clearTimeout(timers, id) == {t \in timers : t.id # id}

\* setTimeout(callback, ms) at time now, the new timer getting the id given
setTimeout(timers, id, now, ms, callback) ==
    timers \cup {[id |-> id, due |-> now + ms, callback |-> callback]}

TimerDue(timers, now) == \E t \in timers : t.due <= now

\* the arguments (...args) the debounced / throttled function is called with
TimedArgs == {"a", "b"}

(***************************************************************************)
(* debounce (higherOrderFunctions.ts, as listed in the README).            *)
(*   debouncer.delay      the argument of debounce                         *)
(*   debouncer.timeoutId  the variable of the closure: 0 for undefined     *)
(*   debouncer.timers     the pending timers                               *)
(*   debouncer.clock      the time                                         *)
(* History, for the claims:                                                *)
(*   debouncer.calls      the calls made: time and arguments               *)
(*   debouncer.invoked    the invocations of func: time, arguments, and    *)
(*                        the call whose timer made it                     *)
(***************************************************************************)
InitDebouncer ==
    /\ \E d \in 1..MaxDelay :
          debouncer = [delay |-> d, timeoutId |-> 0, timers |-> {}, clock |-> 0,
                       calls |-> <<>>, invoked |-> <<>>]
    /\ OthersIdle("debouncer")

\* the function returned by debounce is called with args
DebouncedCall(args) ==
    LET id == Len(debouncer.calls) + 1
        cleared == clearTimeout(debouncer.timers, debouncer.timeoutId)
    IN /\ Len(debouncer.calls) < MaxTimedCalls
       /\ ~TimerDue(debouncer.timers, debouncer.clock)
       /\ debouncer' = [debouncer EXCEPT
             !.timers = setTimeout(cleared, id, debouncer.clock, debouncer.delay,
                                   [args |-> args, call |-> id]),
             !.timeoutId = id,
             !.calls = Append(@, [time |-> debouncer.clock, args |-> args])]
       /\ Frame("debouncer")

\* a due timer runs its callback: () => func(...args)
DebounceTimerFires ==
    /\ \E t \in debouncer.timers :
          /\ t.due <= debouncer.clock
          /\ debouncer' = [debouncer EXCEPT
                !.timers = @ \ {t},
                !.invoked = Append(@, [time |-> debouncer.clock,
                                       args |-> t.callback.args,
                                       call |-> t.callback.call])]
    /\ Frame("debouncer")

DebounceTick ==
    /\ debouncer.clock < MaxClock
    /\ ~TimerDue(debouncer.timers, debouncer.clock)
    /\ debouncer' = [debouncer EXCEPT !.clock = @ + 1]
    /\ Frame("debouncer")

NextDebouncer ==
    \/ \E args \in TimedArgs : DebouncedCall(args)
    \/ DebounceTimerFires
    \/ DebounceTick

SpecDebouncer == InitDebouncer /\ [][NextDebouncer]_vars

(***************************************************************************)
(* C19  debounce: one invocation per burst, delay ms after its last call   *)
(***************************************************************************)
\* call i is followed by a call less than delay ms later
Superseded(d, i) ==
    i < Len(d.calls) /\ d.calls[i + 1].time - d.calls[i].time < d.delay

InvocationsOf(d, i) == {k \in 1..Len(d.invoked) : d.invoked[k].call = i}

\* C19: a call that is followed by another less than delay ms later never
\* causes an invocation; the last call of a burst causes exactly one, delay ms
\* after it and with its arguments.
C19_Debounce ==
    LET d == debouncer IN
    \A i \in 1..Len(d.calls) :
       /\ Superseded(d, i) => InvocationsOf(d, i) = {}
       /\ \A k \in InvocationsOf(d, i) :
             /\ d.invoked[k].time = d.calls[i].time + d.delay
             /\ d.invoked[k].args = d.calls[i].args
       /\ Cardinality(InvocationsOf(d, i)) <= 1
       /\ (~Superseded(d, i) /\ d.clock > d.calls[i].time + d.delay) =>
             Cardinality(InvocationsOf(d, i)) = 1

\* a burst of two calls one ms apart with delay 2, then func invoked once, 2 ms
\* after the second call and with its arguments
C19_Witness ==
    /\ debouncer.delay = 2
    /\ debouncer.calls = <<[time |-> 0, args |-> "a"], [time |-> 1, args |-> "b"]>>
    /\ debouncer.invoked = <<[time |-> 3, args |-> "b", call |-> 2]>>
    /\ debouncer.clock = 4

(***************************************************************************)
(* throttle (higherOrderFunctions.ts, as listed in the README).            *)
(*   throttler.limit       the argument of throttle                        *)
(*   throttler.inThrottle  the variable of the closure (undefined, which   *)
(*                         is falsy, is written FALSE)                     *)
(*   throttler.timers      the pending timers                              *)
(*   throttler.clock       the time                                        *)
(* History, for the claims:                                                *)
(*   throttler.calls       the calls made: time, arguments, whether func   *)
(*                         was invoked in the call and whether it threw    *)
(***************************************************************************)
InitThrottler ==
    /\ \E l \in 1..MaxDelay :
          throttler = [limit |-> l, inThrottle |-> FALSE, timers |-> {},
                       clock |-> 0, calls |-> <<>>]
    /\ OthersIdle("throttler")

\* a call while inThrottle is falsy, func returning: the flag is set and a
\* timer started that resets it
ThrottledCallExecutes(args) ==
    /\ Len(throttler.calls) < MaxTimedCalls
    /\ ~TimerDue(throttler.timers, throttler.clock)
    /\ ~throttler.inThrottle
    /\ throttler' = [throttler EXCEPT
          !.inThrottle = TRUE,
          !.timers = setTimeout(@, Len(throttler.calls) + 1, throttler.clock,
                                throttler.limit, "reset"),
          !.calls = Append(@, [time |-> throttler.clock, args |-> args,
                               executed |-> TRUE, threw |-> FALSE])]
    /\ Frame("throttler")

\* a call while inThrottle is falsy, func throwing: the exception leaves the
\* returned function before inThrottle = true and before setTimeout
ThrottledCallThrows(args) ==
    /\ Len(throttler.calls) < MaxTimedCalls
    /\ ~TimerDue(throttler.timers, throttler.clock)
    /\ ~throttler.inThrottle
    /\ throttler' = [throttler EXCEPT
          !.calls = Append(@, [time |-> throttler.clock, args |-> args,
                               executed |-> TRUE, threw |-> TRUE])]
    /\ Frame("throttler")

\* a call while inThrottle is true does nothing
ThrottledCallDropped(args) ==
    /\ Len(throttler.calls) < MaxTimedCalls
    /\ ~TimerDue(throttler.timers, throttler.clock)
    /\ throttler.inThrottle
    /\ throttler' = [throttler EXCEPT
          !.calls = Append(@, [time |-> throttler.clock, args |-> args,
                               executed |-> FALSE, threw |-> FALSE])]
    /\ Frame("throttler")

\* a due timer runs its callback: () => inThrottle = false
ThrottleTimerFires ==
    /\ \E t \in throttler.timers :
          /\ t.due <= throttler.clock
          /\ throttler' = [throttler EXCEPT !.timers = @ \ {t},
                                            !.inThrottle = FALSE]
    /\ Frame("throttler")

ThrottleTick ==
    /\ throttler.clock < MaxClock
    /\ ~TimerDue(throttler.timers, throttler.clock)
    /\ throttler' = [throttler EXCEPT !.clock = @ + 1]
    /\ Frame("throttler")

NextThrottler ==
    \/ \E args \in TimedArgs : ThrottledCallExecutes(args)
    \/ \E args \in TimedArgs : ThrottledCallThrows(args)
    \/ \E args \in TimedArgs : ThrottledCallDropped(args)
    \/ ThrottleTimerFires
    \/ ThrottleTick

SpecThrottler == InitThrottler /\ [][NextThrottler]_vars

(***************************************************************************)
(* C20  throttle: func runs on the first call, then at most once per limit *)
(***************************************************************************)
\* C20: the first call invokes func; two invocations are never less than
\* limit ms apart, that is, a call made less than limit ms after a call that
\* invoked func does not invoke it.
C20_Throttle ==
    LET th == throttler IN
    /\ Len(th.calls) > 0 => th.calls[1].executed
    /\ \A i, j \in 1..Len(th.calls) :
          (i < j /\ th.calls[i].executed
                 /\ th.calls[j].time - th.calls[i].time < th.limit)
              => ~th.calls[j].executed

\* the same, for the calls made while no invocation of func has thrown
C20_ThrottleWhileNoThrow ==
    (\A i \in 1..Len(throttler.calls) : ~throttler.calls[i].threw) => C20_Throttle

(***************************************************************************)
(* UserService (arrowfunctionExampleHigerOrderFUnc.ts): addUser,           *)
(* onUserEvent and notifyEvent.                                            *)
(*   userService.users           the array users                           *)
(*   userService.eventCallbacks  the Map event -> array of callbacks       *)
(*   userService.n               the number of addUser calls made          *)
(*   userService.last            the last addUser call: its arguments, the *)
(*       list before it, whether it threw, what it returned, and the       *)
(*       listeners called: <<event, index of the callback, user>>          *)
(***************************************************************************)
\* the users handed to addUser (objects, so truthy)
Users == {"alice", "bob"}

UserEvents == {"user-added", "user-deleted"}

\* listeners: one that returns and one that throws
UserCallbacks == {"log", "boom"}

\* what validationCallback is: absent, or a function that returns true,
\* returns false or throws
Validations == {"absent", "accepts", "rejects", "throws"}

RECURSIVE ForEachCallback(_, _, _, _)
\* callbacks.forEach(callback => { if (user) callback(user) }) from index i
\* on: the calls made, and whether a callback threw (which ends the forEach)
ForEachCallback(callbacks, event, user, i) ==
    IF i > Len(callbacks) THEN [called |-> <<>>, threw |-> FALSE]
    ELSE IF callbacks[i] = "boom"
         THEN [called |-> << <<event, i, user>> >>, threw |-> TRUE]
         ELSE LET rest == ForEachCallback(callbacks, event, user, i + 1)
              IN [called |-> << <<event, i, user>> >> \o rest.called,
                  threw |-> rest.threw]

\* const callbacks = this.eventCallbacks.get(event); if (callbacks) ...
notifyEvent(eventCallbacks, event, user) ==
    IF event \in DOMAIN eventCallbacks
    THEN ForEachCallback(eventCallbacks[event], event, user, 1)
    ELSE [called |-> <<>>, threw |-> FALSE]

NoAddUser == [user |-> "", validation |-> "absent", before |-> <<>>,
              threw |-> FALSE, returned |-> FALSE, called |-> <<>>,
              listeners |-> <<>>]

InitUserService ==
    /\ userService = [users |-> <<>>, eventCallbacks |-> <<>>, n |-> 0,
                      last |-> NoAddUser]
    /\ OthersIdle("userService")

NumListeners(eventCallbacks) ==
    LET RECURSIVE Sum(_)
        Sum(E) == IF E = {} THEN 0
                  ELSE LET e == CHOOSE x \in E : TRUE
                       IN Len(eventCallbacks[e]) + Sum(E \ {e})
    IN Sum(DOMAIN eventCallbacks)

OnUserEvent(event, callback) ==
    /\ NumListeners(userService.eventCallbacks) < MaxListeners
    /\ userService' = [userService EXCEPT
          !.eventCallbacks =
              MapSet(@, event,
                     Append(IF event \in DOMAIN @ THEN @[event] ELSE <<>>,
                            callback))]
    /\ Frame("userService")

AddUser(user, validation) ==
    LET u == userService
        base == [user |-> user, validation |-> validation, before |-> u.users,
                 threw |-> FALSE, returned |-> FALSE, called |-> <<>>,
                 listeners |-> IF "user-added" \in DOMAIN u.eventCallbacks
                               THEN u.eventCallbacks["user-added"] ELSE <<>>]
        notified == notifyEvent(u.eventCallbacks, "user-added", user)
    IN /\ u.n < MaxAddUser
       /\ userService' =
            CASE validation = "throws" ->
                   [u EXCEPT !.n = @ + 1, !.last = [base EXCEPT !.threw = TRUE]]
              [] validation = "rejects" ->
                   [u EXCEPT !.n = @ + 1, !.last = base]
              [] OTHER ->
                   [u EXCEPT !.n = @ + 1,
                             !.users = Append(@, user),
                             !.last = [base EXCEPT !.called = notified.called,
                                                   !.threw = notified.threw,
                                                   !.returned = ~notified.threw]]
       /\ Frame("userService")

NextUserService ==
    \/ \E event \in UserEvents, callback \in UserCallbacks :
          OnUserEvent(event, callback)
    \/ \E user \in Users, validation \in Validations : AddUser(user, validation)

SpecUserService == InitUserService /\ [][NextUserService]_vars

(***************************************************************************)
(* C21  addUser: validation, append, notification                          *)
(***************************************************************************)
\* the calls that notify every listener of 'user-added', in order, once, of
\* user
AllAddedListenersCalled(l) ==
    l.called = [i \in 1..Len(l.listeners) |-> <<"user-added", i, l.user>>]

\* C21: when validate is given and returns false, addUser returns false, the
\* list is unchanged and no listener is called; otherwise the user is added at
\* the end, every 'user-added' listener is called once with the user, and
\* true is returned.
C21_AddUser ==
    LET u == userService
        l == u.last
    IN u.n > 0 =>
         IF l.validation = "rejects"
         THEN ~l.threw /\ ~l.returned /\ u.users = l.before /\ l.called = <<>>
         ELSE l.validation # "throws" =>
                /\ u.users = Append(l.before, l.user)
                /\ AllAddedListenersCalled(l)
                /\ ~l.threw /\ l.returned

\* the same, for a service none of whose listeners throws
C21_AddUserNoThrowingListener ==
    (\A e \in DOMAIN userService.eventCallbacks :
        \A i \in 1..Len(userService.eventCallbacks[e]) :
           userService.eventCallbacks[e][i] # "boom") => C21_AddUser

(***************************************************************************)
(* withTimeout (asyncCallbacks.ts): one call of the function it returns.   *)
(*   wrapper.timeoutMs   the argument of withTimeout                       *)
(*   wrapper.pc          "idle", or "called" once the function was called  *)
(*   wrapper.startedAt   the time of the call                              *)
(*   wrapper.started     the number of times operation() was called        *)
(*   wrapper.operation   the promise operation() returned                  *)
(*   wrapper.settledAt   the time it settled                               *)
(*   wrapper.timers      the pending timers                                *)
(*   wrapper.result      the promise the call returned                     *)
(*   wrapper.clock       the time                                          *)
(* History, for the claims:                                                *)
(*   wrapper.results     the values wrapper.result has taken when settled  *)
(***************************************************************************)
\* new Error(timeoutMessage), an error no operation rejects with
TimeoutError == 0

\* a promise whose state follows the latest settlement
Settle_LastWins(promise, outcome) == outcome

\* resolve / reject of a promise: only the first settlement counts
Settle(promise, outcome) == IF promise = Pending THEN outcome ELSE promise

\* the values a promise goes through, settling it with outcome
Settlements(promise, history, outcome) ==
    IF Settle(promise, outcome) # promise
    THEN Append(history, Settle(promise, outcome))
    ELSE history

InitWrapper ==
    /\ \E to \in 1..MaxTimeout :
          wrapper = [timeoutMs |-> to, pc |-> "idle", startedAt |-> 0,
                     started |-> 0, operation |-> Pending, settledAt |-> 0,
                     timers |-> {}, result |-> Pending, clock |-> 0,
                     results |-> <<>>]
    /\ OthersIdle("wrapper")

\* the call: the timer is set, operation() is called, and the two promises race
WrapperCall ==
    /\ wrapper.pc = "idle"
    /\ wrapper' = [wrapper EXCEPT
          !.pc = "called",
          !.startedAt = wrapper.clock,
          !.timers = setTimeout(@, 1, wrapper.clock, wrapper.timeoutMs, "reject"),
          !.started = @ + 1]
    /\ Frame("wrapper")

\* the operation's promise settles
WrapperOperationSettles(outcome) ==
    /\ wrapper.pc = "called"
    /\ wrapper.operation = Pending
    /\ ~TimerDue(wrapper.timers, wrapper.clock)
    /\ wrapper' = [wrapper EXCEPT
          !.operation = outcome,
          !.settledAt = wrapper.clock,
          !.result = Settle(@, outcome),
          !.results = Settlements(wrapper.result, @, outcome)]
    /\ Frame("wrapper")

\* the timer runs its callback: () => reject(new Error(timeoutMessage))
WrapperTimerFires ==
    /\ \E t \in wrapper.timers :
          /\ t.due <= wrapper.clock
          /\ wrapper' = [wrapper EXCEPT
                !.timers = @ \ {t},
                !.result = Settle(@, Rejected(TimeoutError)),
                !.results = Settlements(wrapper.result, @,
                                        Rejected(TimeoutError))]
    /\ Frame("wrapper")

WrapperTick ==
    /\ wrapper.clock < MaxClock
    /\ ~TimerDue(wrapper.timers, wrapper.clock)
    /\ wrapper' = [wrapper EXCEPT !.clock = @ + 1]
    /\ Frame("wrapper")

NextWrapper ==
    \/ WrapperCall
    \/ \E v \in Outcomes : WrapperOperationSettles(Fulfilled(v))
    \/ \E e \in Outcomes : WrapperOperationSettles(Rejected(e))
    \/ WrapperTimerFires
    \/ WrapperTick

SpecWrapper == InitWrapper /\ [][NextWrapper]_vars

(***************************************************************************)
(* C22  withTimeout settles with whichever happens first                   *)
(***************************************************************************)
\* C22: the operation is started exactly once; if it settles before timeoutMs
\* have elapsed the result is its outcome; if it has not, the result is the
\* rejection with Error(timeoutMessage); the result, once settled, never
\* changes.
C22_FirstWins ==
    LET w == wrapper
        due == w.startedAt + w.timeoutMs
        inTime == w.operation # Pending /\ w.settledAt < due
    IN w.pc = "called" =>
         /\ w.started = 1
         /\ inTime => w.result = w.operation
         /\ (~inTime /\ (w.clock > due \/ (w.clock = due /\ w.timers = {})))
               => w.result = Rejected(TimeoutError)
         /\ (~inTime /\ w.clock < due) => w.result = Pending
         /\ Len(w.results) <= 1

\* the timeout won the race and the operation settled afterwards
C22_Witness ==
    /\ wrapper.pc = "called"
    /\ wrapper.result = Rejected(TimeoutError)
    /\ wrapper.operation = Fulfilled(1)
    /\ wrapper.settledAt > wrapper.startedAt + wrapper.timeoutMs

(***************************************************************************)
(* AsyncEventEmitter (asyncCallbacks.ts): on, onError and one emit.        *)
(*   emitter.listeners      event -> the callbacks registered, in order;   *)
(*                          a callback is written as its serial number     *)
(*   emitter.errorHandlers  the number of error handlers registered        *)
(*   emitter.pc             "idle", "emitting", "resolved" or "rejected":  *)
(*                          the state of the promise emit returned         *)
(*   emitter.event          the event emitted                              *)
(*   emitter.tasks          one per element of eventListeners: the state   *)
(*       of the async arrow of line 158: "callback" (awaiting the          *)
(*       callback), "handlers" (awaiting handleError) or "settled", and    *)
(*       whether the callback failed, and the error handlers handleError   *)
(*       still awaits                                                      *)
(* History, for the claims:                                                *)
(*   emitter.registered     the number of callbacks registered so far      *)
(*   emitter.invoked        the callbacks invoked, in order                *)
(*   emitter.atEmit         emitter.listeners when emit was called         *)
(***************************************************************************)
EmitterEvents == {"data-loaded", "error-occurred"}

\* Promise.allSettled resolving with the first promise to settle
AllSettled_First(tasks) ==
    tasks = <<>> \/ \E i \in 1..Len(tasks) : tasks[i].st = "settled"

\* await Promise.allSettled(promises): every promise has settled
AllSettled(tasks) == \A i \in 1..Len(tasks) : tasks[i].st = "settled"

InitEmitter ==
    /\ emitter = [listeners |-> [e \in EmitterEvents |-> <<>>],
                  errorHandlers |-> 0, pc |-> "idle", event |-> "",
                  tasks |-> <<>>, registered |-> 0, invoked |-> <<>>,
                  atEmit |-> [e \in EmitterEvents |-> <<>>]]
    /\ OthersIdle("emitter")

EmitterOn(event) ==
    /\ emitter.registered < MaxListeners
    /\ emitter' = [emitter EXCEPT
          !.listeners[event] = Append(@, emitter.registered + 1),
          !.registered = @ + 1]
    /\ Frame("emitter")

EmitterOnError ==
    /\ emitter.errorHandlers < MaxHandlers
    /\ emitter' = [emitter EXCEPT !.errorHandlers = @ + 1]
    /\ Frame("emitter")

\* emit(event, data): eventListeners.map starts every callback
EmitterEmit(event) ==
    LET eventListeners == emitter.listeners[event] IN
    /\ emitter.pc = "idle"
    /\ emitter' = [emitter EXCEPT
          !.pc = "emitting",
          !.event = event,
          !.atEmit = emitter.listeners,
          !.invoked = eventListeners,
          !.tasks = [i \in 1..Len(eventListeners) |->
                        [st |-> "callback", awaiting |-> {}, failed |-> FALSE]]]
    /\ Frame("emitter")

\* await callback(data) returns
ListenerFulfils(i) ==
    /\ emitter.pc = "emitting"
    /\ i \in 1..Len(emitter.tasks)
    /\ emitter.tasks[i].st = "callback"
    /\ emitter' = [emitter EXCEPT !.tasks[i].st = "settled"]
    /\ Frame("emitter")

\* await callback(data) throws: handleError starts every error handler
ListenerRejects(i) ==
    /\ emitter.pc = "emitting"
    /\ i \in 1..Len(emitter.tasks)
    /\ emitter.tasks[i].st = "callback"
    /\ emitter' = [emitter EXCEPT
          !.tasks[i] = [st |-> "handlers", failed |-> TRUE,
                        awaiting |-> 1..emitter.errorHandlers]]
    /\ Frame("emitter")

\* await handler(error) returns or throws: the throw is caught and logged
ErrorHandlerSettles(i, h) ==
    /\ emitter.pc = "emitting"
    /\ i \in 1..Len(emitter.tasks)
    /\ emitter.tasks[i].st = "handlers"
    /\ h \in emitter.tasks[i].awaiting
    /\ emitter' = [emitter EXCEPT !.tasks[i].awaiting = @ \ {h}]
    /\ Frame("emitter")

\* await Promise.allSettled(promises) of handleError returns
HandleErrorReturns(i) ==
    /\ emitter.pc = "emitting"
    /\ i \in 1..Len(emitter.tasks)
    /\ emitter.tasks[i].st = "handlers"
    /\ emitter.tasks[i].awaiting = {}
    /\ emitter' = [emitter EXCEPT !.tasks[i].st = "settled"]
    /\ Frame("emitter")

\* await Promise.allSettled(promises) of emit returns
EmitResolves ==
    /\ emitter.pc = "emitting"
    /\ AllSettled(emitter.tasks)
    /\ emitter' = [emitter EXCEPT !.pc = "resolved"]
    /\ Frame("emitter")

NextEmitter ==
    \/ \E event \in EmitterEvents : EmitterOn(event)
    \/ EmitterOnError
    \/ \E event \in EmitterEvents : EmitterEmit(event)
    \/ \E i \in 1..MaxListeners : ListenerFulfils(i)
    \/ \E i \in 1..MaxListeners : ListenerRejects(i)
    \/ \E i \in 1..MaxListeners, h \in 1..MaxHandlers : ErrorHandlerSettles(i, h)
    \/ \E i \in 1..MaxListeners : HandleErrorReturns(i)
    \/ EmitResolves

SpecEmitter == InitEmitter /\ [][NextEmitter]_vars

(***************************************************************************)
(* C23  emit invokes every listener of the event and never rejects         *)
(***************************************************************************)
TimesInvoked(cb) ==
    Cardinality({k \in 1..Len(emitter.invoked) : emitter.invoked[k] = cb})

\* C23: once emit is called, every listener registered for the event has been
\* invoked exactly once and no listener of another event has; emit resolves
\* only when every listener, and every error handler started for a failed
\* listener, has settled; emit never rejects.
C23_EmitAll ==
    /\ emitter.pc # "idle" =>
          \A e \in EmitterEvents : \A k \in 1..Len(emitter.atEmit[e]) :
             TimesInvoked(emitter.atEmit[e][k])
                 = IF e = emitter.event THEN 1 ELSE 0
    /\ emitter.pc = "resolved" =>
          /\ Len(emitter.tasks) = Len(emitter.atEmit[emitter.event])
          /\ \A i \in 1..Len(emitter.tasks) :
                emitter.tasks[i].st = "settled" /\ emitter.tasks[i].awaiting = {}
    /\ emitter.pc # "rejected"

\* one listener of the event and one of another; the listener of the event
\* failed, the two error handlers ran, and emit resolved
C23_Witness ==
    /\ emitter.pc = "resolved"
    /\ Len(emitter.tasks) = 1
    /\ emitter.tasks[1].failed
    /\ emitter.errorHandlers = 2
    /\ \E e \in EmitterEvents : e # emitter.event /\ Len(emitter.atEmit[e]) = 1

(***************************************************************************)
(* C24  circuit breaker: reset on success                                  *)
(***************************************************************************)
\* a step in which operation() of call i fulfils / rejects
BreakerFulfilStep(i) ==
    /\ i \in 1..Len(breaker.calls)
    /\ breaker.calls[i].status = "awaiting"
    /\ breaker'.calls[i].status = "fulfilled"

BreakerRejectStep(i) ==
    /\ i \in 1..Len(breaker.calls)
    /\ breaker.calls[i].status = "awaiting"
    /\ breaker'.calls[i].status = "rejected"

\* C24: after a call whose operation succeeds, failures is 0.
C24_ResetOnSuccess ==
    [][\A i \in 1..MaxBreakerCalls :
          BreakerFulfilStep(i) => breaker'.failures = 0]_vars

(***************************************************************************)
(* C25  circuit breaker: half-open probing                                 *)
(***************************************************************************)
\* C25: a call that starts when the breaker is OPEN and more than timeoutMs
\* after lastFailureTime moves it to HALF_OPEN and invokes the operation; if
\* that operation succeeds the breaker becomes CLOSED with failures = 0, if it
\* fails the breaker returns to OPEN; OPEN is never followed by CLOSED.
C25_HalfOpenProbe ==
    [][/\ (/\ BreakerCallStep
           /\ breaker.state = "OPEN"
           /\ breaker.clock - breaker.lastFailureTime > breaker.timeoutMs)
          => /\ breaker'.state = "HALF_OPEN"
             /\ breaker'.invoked = breaker.invoked + 1
       /\ \A i \in 1..MaxBreakerCalls :
             /\ (BreakerFulfilStep(i) /\ breaker.calls[i].probe)
                   => breaker'.state = "CLOSED" /\ breaker'.failures = 0
             /\ (BreakerRejectStep(i) /\ breaker.calls[i].probe)
                   => breaker'.state = "OPEN"
       /\ breaker.state = "OPEN" => breaker'.state # "CLOSED"]_vars

(***************************************************************************)
(* C26  circuit breaker: state and failure count                           *)
(***************************************************************************)
\* C26: CLOSED implies failures < failureThreshold, and OPEN or HALF_OPEN
\* implies failures >= failureThreshold, whatever calls are in flight.
C26_StateCounter ==
    /\ breaker.state = "CLOSED" => breaker.failures < breaker.failureThreshold
    /\ breaker.state \in {"OPEN", "HALF_OPEN"}
          => breaker.failures >= breaker.failureThreshold

\* the breaker is HALF_OPEN, with the probing call and a call started while it
\* was CLOSED both in flight
C26_Witness ==
    /\ breaker.state = "HALF_OPEN"
    /\ breaker.failures >= breaker.failureThreshold
    /\ \E i, j \in 1..Len(breaker.calls) :
          /\ breaker.calls[i].status = "awaiting" /\ breaker.calls[i].probe
          /\ breaker.calls[j].status = "awaiting" /\ ~breaker.calls[j].probe

(***************************************************************************)
(* C27  retryAsync: onRetry, then the delay, then the next attempt         *)
(***************************************************************************)
RECURSIVE DoubledTimes(_, _)
\* d * 2^n
DoubledTimes(d, n) == IF n = 0 THEN d ELSE DoubledTimes(d + d, n - 1)

EventsOf(ev, n) ==
    {i \in 1..Len(retry.events) : retry.events[i].ev = ev /\ retry.events[i].n = n}

\* C27: attempt k + 1 starts only right after a delay of baseDelay * 2^(k-1)
\* ms, which starts only right after onRetry(k, error of attempt k) was
\* awaited (when onRetry is given), which is called only right after attempt k
\* failed, and only once; after the failure of attempt maxRetries + 1 neither
\* onRetry is called nor a delay started.
C27_RetryOrdering ==
    LET ev == retry.events
        back == IF retry.onRetry THEN 3 ELSE 2
    IN /\ \A i \in 1..Len(ev) :
            (ev[i].ev = "operation" /\ ev[i].n > 1) =>
               LET k == ev[i].n - 1 IN
               /\ i > back
               /\ ev[i - 1] = Event("delay", DoubledTimes(retry.baseDelay, k - 1), 0)
               /\ retry.onRetry => ev[i - 2] = Event("onRetry", k, retry.errors[k])
               /\ ev[i - back] = Event("operation", k, 0)
       /\ \A i \in 1..Len(ev) :
            ev[i].ev \in {"onRetry", "delay"} =>
               /\ i > 1
               /\ ev[i].ev = "onRetry" =>
                     /\ retry.onRetry
                     /\ ev[i - 1] = Event("operation", ev[i].n, 0)
                     /\ Len(retry.errors) >= ev[i].n
                     /\ ev[i].n <= retry.maxRetries
               /\ ev[i].ev = "delay" =>
                     ev[i - 1].ev = IF retry.onRetry THEN "onRetry" ELSE "operation"
       /\ \A k \in 1..(MaxRetries + 2) : Cardinality(EventsOf("onRetry", k)) <= 1
       /\ Len(retry.errors) = retry.maxRetries + 1 =>
             ev[Len(ev)] = Event("operation", retry.maxRetries + 1, 0)

\* with maxRetries 2 and baseDelay 2, all three attempts failed: onRetry(1),
\* a delay of 2 ms, attempt 2, onRetry(2), a delay of 4 ms, attempt 3, and
\* nothing after its failure
C27_Witness ==
    /\ retry.onRetry
    /\ retry.maxRetries = 2 /\ retry.baseDelay = 2
    /\ Len(retry.errors) = 3
    /\ retry.errors[1] # retry.errors[2]
    /\ retry.events = << Event("operation", 1, 0),
                         Event("onRetry", 1, retry.errors[1]),
                         Event("delay", 2, 0),
                         Event("operation", 2, 0),
                         Event("onRetry", 2, retry.errors[2]),
                         Event("delay", 4, 0),
                         Event("operation", 3, 0) >>

(***************************************************************************)
(* C28  the result of processBatch                                         *)
(***************************************************************************)
RECURSIVE FulfilledFrom(_)
\* the items k..n whose processor call fulfilled, in the order of the input
FulfilledFrom(k) ==
    IF k > batch.n THEN <<>>
    ELSE IF batch.status[k] = "fulfilled" THEN <<k>> \o FulfilledFrom(k + 1)
    ELSE FulfilledFrom(k + 1)

\* C28: processBatch never rejects; when it resolves, every item has been
\* processed exactly once and the result holds the values of the fulfilled
\* calls, and only those, in the order of their items.
C28_BatchResult ==
    /\ batch.pc \in {"idle", "awaiting", "done"}
    /\ \A k \in 1..batch.n : batch.started[k] <= 1
    /\ batch.pc = "done" =>
          /\ \A k \in 1..batch.n :
                batch.started[k] = 1 /\ batch.status[k] \in {"fulfilled", "rejected"}
          /\ batch.results = FulfilledFrom(1)
          /\ Len(batch.results) =
                Cardinality({k \in 1..batch.n : batch.status[k] = "fulfilled"})

\* three items in batches of two with concurrency one: the second item's call
\* rejected, and the result is the first and the third value
C28_Witness ==
    /\ batch.pc = "done"
    /\ batch.n = 3 /\ batch.batchSize = 2 /\ batch.concurrency = 1
    /\ batch.status[2] = "rejected"
    /\ batch.results = <<1, 3>>

(***************************************************************************)
(* TypedEventEmitter (higherOrderFunctions.ts, as listed in the README).   *)
(*   typedEmitter.listeners   event -> the array of callbacks              *)
(*   typedEmitter.n           the number of calls made                     *)
(*   typedEmitter.last        the last call: the method, its arguments,    *)
(*       the array of the event before the call, the callbacks it invoked  *)
(*       and whether it threw                                              *)
(***************************************************************************)
TypedEvents == {"user-login", "data-updated"}

\* the callbacks: two that return, one that throws, and one that removes
\* itself from the event when it is called
TypedCallbacks == {"logA", "logB", "boom", "once"}

\* eventListeners.indexOf(callback), from 1; 0 when absent
IndexOf(ls, callback) ==
    IF \E k \in 1..Len(ls) : ls[k] = callback
    THEN CHOOSE k \in 1..Len(ls) :
            ls[k] = callback /\ \A m \in 1..(k - 1) : ls[m] # callback
    ELSE 0

\* eventListeners.splice(index, 1)
Splice1(ls, index) ==
    [k \in 1..(Len(ls) - 1) |-> IF k < index THEN ls[k] ELSE ls[k + 1]]

\* the array after off(event, callback)
Removed(ls, callback) ==
    IF IndexOf(ls, callback) > 0 THEN Splice1(ls, IndexOf(ls, callback)) ELSE ls

RECURSIVE ForEachListener(_, _, _)
\* eventListeners.forEach(callback => callback(data)) from index k (from 1)
\* up to the length len the array had at the start; forEach skips an index
\* the array no longer has
ForEachListener(ls, k, len) ==
    IF k > len THEN [listeners |-> ls, invoked |-> <<>>, threw |-> FALSE]
    ELSE IF k > Len(ls) THEN ForEachListener(ls, k + 1, len)
    ELSE LET callback == ls[k]
             after == IF callback = "once" THEN Removed(ls, callback) ELSE ls
             rest == ForEachListener(after, k + 1, len)
         IN IF callback = "boom"
            THEN [listeners |-> ls, invoked |-> <<callback>>, threw |-> TRUE]
            ELSE [listeners |-> rest.listeners,
                  invoked |-> <<callback>> \o rest.invoked,
                  threw |-> rest.threw]

NoTypedCall == [method |-> "", event |-> "", callback |-> "", before |-> <<>>,
                invoked |-> <<>>, threw |-> FALSE]

InitTypedEmitter ==
    /\ typedEmitter = [listeners |-> [e \in TypedEvents |-> <<>>], n |-> 0,
                       last |-> NoTypedCall]
    /\ OthersIdle("typedEmitter")

TypedOn(event, callback) ==
    /\ typedEmitter.n < MaxEmitterOps
    /\ typedEmitter' = [typedEmitter EXCEPT
          !.n = @ + 1,
          !.listeners[event] = Append(@, callback),
          !.last = [NoTypedCall EXCEPT !.method = "on", !.event = event,
                       !.callback = callback,
                       !.before = typedEmitter.listeners[event]]]
    /\ Frame("typedEmitter")

TypedOff(event, callback) ==
    /\ typedEmitter.n < MaxEmitterOps
    /\ typedEmitter' = [typedEmitter EXCEPT
          !.n = @ + 1,
          !.listeners[event] = Removed(@, callback),
          !.last = [NoTypedCall EXCEPT !.method = "off", !.event = event,
                       !.callback = callback,
                       !.before = typedEmitter.listeners[event]]]
    /\ Frame("typedEmitter")

TypedEmit(event) ==
    LET ls == typedEmitter.listeners[event]
        run == ForEachListener(ls, 1, Len(ls))
    IN /\ typedEmitter.n < MaxEmitterOps
       /\ typedEmitter' = [typedEmitter EXCEPT
             !.n = @ + 1,
             !.listeners[event] = run.listeners,
             !.last = [NoTypedCall EXCEPT !.method = "emit", !.event = event,
                          !.before = ls, !.invoked = run.invoked,
                          !.threw = run.threw]]
       /\ Frame("typedEmitter")

NextTypedEmitter ==
    \/ \E event \in TypedEvents, callback \in TypedCallbacks : TypedOn(event, callback)
    \/ \E event \in TypedEvents, callback \in TypedCallbacks : TypedOff(event, callback)
    \/ \E event \in TypedEvents : TypedEmit(event)

SpecTypedEmitter == InitTypedEmitter /\ [][NextTypedEmitter]_vars

(***************************************************************************)
(* C29  TypedEventEmitter: emit and off                                    *)
(***************************************************************************)
Occurrences(ls, callback) == Cardinality({k \in 1..Len(ls) : ls[k] = callback})

\* C29: emit invokes the listeners registered for the event, in registration
\* order; off of a callback registered once leaves the other listeners of the
\* event, in order, and not the callback, so that a later emit invokes them
\* and not it; off of a callback that is not registered changes nothing.
C29_EmitAndOff ==
    LET t == typedEmitter
        l == t.last
    IN /\ l.method = "emit" => l.invoked = l.before
       /\ (l.method = "off" /\ Occurrences(l.before, l.callback) = 1) =>
             /\ Occurrences(t.listeners[l.event], l.callback) = 0
             /\ \A cb \in TypedCallbacks \ {l.callback} :
                   Occurrences(t.listeners[l.event], cb) = Occurrences(l.before, cb)
             /\ Len(t.listeners[l.event]) = Len(l.before) - 1
       /\ (l.method = "off" /\ Occurrences(l.before, l.callback) = 0) =>
             t.listeners[l.event] = l.before

\* the same, for emits of events none of whose listeners throws or removes a
\* listener while the event is emitted
C29_EmitAndOffPlainListeners ==
    (typedEmitter.last.method = "emit"
        => \A k \in 1..Len(typedEmitter.last.before) :
              typedEmitter.last.before[k] \in {"logA", "logB"})
      => C29_EmitAndOff

(***************************************************************************)
(* Several UserRepositoryService instances, each with its own              *)
(* BussinessService and UserController, as the wiring of part_005 builds   *)
(* one.  The classes have no fields of their own: every instance uses the  *)
(* const localStorage of the module.                                       *)
(*   shared.stores   store -> its Map, for the stores the instances use    *)
(*   shared.last     the most recent call: its kind, the instance it went  *)
(*                   through, the layer it was made on and what it         *)
(*                   returned                                              *)
(*   shared.lastOk   the instance and the argument of the most recent save *)
(*                   that returned true                                    *)
(***************************************************************************)
Instances == 1..NumInstances

\* the store an instance reads and writes: the module-level localStorage
StoreOf(instance) == "localStorage"

NoSharedCall == [kind |-> "none", instance |-> 0, layer |-> "none",
                 ret |-> Undefined]

NoSharedSave == [some |-> FALSE, instance |-> 0, arg |-> Undefined]

InitShared ==
    /\ shared = [stores |-> [s \in {StoreOf(i) : i \in Instances} |-> <<>>],
                 last |-> NoSharedCall, lastOk |-> NoSharedSave]
    /\ OthersIdle("shared")

SharedCompleted(instance, layer, kind, arg, r) ==
    /\ shared' = [shared EXCEPT
          !.stores[StoreOf(instance)] = r.st.storage,
          !.last = [kind |-> kind, instance |-> instance, layer |-> layer,
                    ret |-> r.ret],
          !.lastOk = IF kind = "save" /\ r.ret = JSTrue
                     THEN [some |-> TRUE, instance |-> instance, arg |-> arg]
                     ELSE @]
    /\ Frame("shared")

\* userController.saveUserData(R) on the chain built on an instance
SharedControllerSave(instance, R) ==
    SharedCompleted(instance, "controller", "save", R,
        Controller_saveUserData(Start(shared.stores[StoreOf(instance)]), R))

\* userController.getAllUserData() on the chain built on an instance
SharedControllerRead(instance) ==
    SharedCompleted(instance, "controller", "read", Undefined,
        Controller_getAllUserData(Start(shared.stores[StoreOf(instance)])))

\* saveUser(R) on the instance itself
SharedRepositorySave(instance, R) ==
    SharedCompleted(instance, "repository", "save", R,
        Repository_saveUser(Start(shared.stores[StoreOf(instance)]), R))

\* getAllUsers() on the instance itself
SharedRepositoryRead(instance) ==
    SharedCompleted(instance, "repository", "read", Undefined,
        Repository_getAllUsers(Start(shared.stores[StoreOf(instance)])))

NextShared ==
    \E instance \in Instances :
       \/ \E R \in UserDetails : SharedControllerSave(instance, R)
       \/ SharedControllerRead(instance)
       \/ \E R \in UserDetails : SharedRepositorySave(instance, R)
       \/ SharedRepositoryRead(instance)

SpecShared == InitShared /\ [][NextShared]_vars

(***************************************************************************)
(* C30  one store for all instances                                        *)
(***************************************************************************)
\* C30: every instance uses the same store, and a read through an instance
\* other than the one the last record was saved through returns that record
\* (in its serialized form).
C30_SharedStore ==
    /\ Cardinality(DOMAIN shared.stores) = 1
    /\ (/\ shared.last.kind = "read"
        /\ shared.lastOk.some
        /\ shared.last.instance # shared.lastOk.instance)
          => shared.last.ret = JSONstringify(shared.lastOk.arg).val

\* the same, for records whose serialized form is a string
C30_SharedStoreOfStrings ==
    (shared.lastOk.some => JSONstringify(shared.lastOk.arg).val.t = "string")
        => C30_SharedStore

====
